---- MODULE Spec2Model ----
(***************************************************************************)
(* BaseCT: the dynamic-schema data layer (repo.py, MetaRepository) and the *)
(* undo/redo command log of one open table session (app.py, TableView and  *)
(* its FieldsPanel).                                                       *)
(*                                                                         *)
(* Python indices are 0-based, TLA+ sequences 1-based: the command at      *)
(* Python index k of self._undo is undo_stack[k + 1].                      *)
(***************************************************************************)
EXTENDS Integers, Sequences, FiniteSets, TLC

\* ------------------------------------------------------------------ bounds
MaxFields == 2          \* field rows in meta_fields (repository runs)
MaxSessionFields == 1   \* field rows in meta_fields (table session runs)
MaxRecords == 1         \* record ids the table session inserts
MaxRepoRecords == 1     \* record ids the repository runs insert
MaxHistory == 2         \* recorded commands (calls of push_cmd that record)
MaxClock == 2           \* last second the clock reaches
MaxSteps == 5           \* handler calls in a run of the table session
MaxRepoSteps == 4       \* repository calls in a repository run
MaxTables == 2          \* rows ever inserted in meta_tables
MaxProjects == 2        \* rows ever inserted in meta_projects
MaxViews == 2           \* rows ever inserted in meta_views
MaxCatalogFields == 2   \* fields in a run over the fields of several tables
MaxCatalogSteps == 4    \* repository calls in a catalog run
MaxTableSteps == 4      \* repository calls in a run over the fields of several tables
MaxTableViews == 2      \* views of one table
MaxViewSteps == 5       \* handler calls in a run over the views
MaxQueryRecords == 2    \* records of the table a query run starts with
MaxFilterKeys == 2      \* entries of the filters argument of list_records
MaxSearchRecords == 2   \* records of the table a search run starts with
MaxIds == 3             \* record ids in a run over the ids of one table
MaxIdSteps == 4         \* repository calls in a run over the ids of one table

\* ------------------------------------------------------- program constants
FIELD_TYPES ==
  {"text", "number", "date", "bool", "file", "select", "relation", "path", "image"}

\* the table the open TableView belongs to (self.table_id)
table_id == 1

\* inputs the dialogs are driven with
FTypeInputs == {"text", "number"}
NameInputs == {" ", "A"}        \* AddFieldDialog
RenameInputs == {" ", "B"}      \* do_ren's QInputDialog
None == "None"

VARIABLES
  meta_fields,    \* rows of meta_fields; the row's id is its index
  data,           \* table id -> [cols, seq, rows]: the physical data_<id>
  clock,          \* the wall clock, in seconds
  undo_stack,     \* TableView._undo
  undo_idx,       \* TableView._undo_idx
  in_undo_redo,   \* TableView._in_undo_redo
  act_undo,       \* TableView.act_undo.isEnabled()
  act_redo,       \* TableView.act_redo.isEnabled()
  current_table_view, \* the table MainWindow.current_table_view is open on
  relation_cache, \* TableView._relation_cache: table id -> list of (id, label)
  fields,         \* TableView.fields: ids of the fields loaded by reload()
  last,           \* history: the handler (and outcome) of the last step
  steps,          \* history: the number of steps taken so far
  meta_projects,  \* [seq, rows]: rows of meta_projects by id, seq the last id given
  meta_tables,    \* [seq, rows]: rows of meta_tables by id
  meta_views      \* [seq, rows]: rows of meta_views by id

vars == <<meta_fields, data, clock, undo_stack, undo_idx, in_undo_redo,
          fields, last, steps, meta_projects, meta_tables, meta_views,
          current_table_view, act_undo, act_redo, relation_cache>>

catalogvars == <<meta_projects, meta_tables, meta_views>>

dbvars == <<meta_fields, data>>
histvars == <<undo_stack, undo_idx, in_undo_redo>>

\* --------------------------------------------------------------- helpers
EmptyMap == [x \in {} |-> 0]

Max(a, b) == IF a >= b THEN a ELSE b

\* str.strip() on the name inputs
strip(s) ==
  CASE s = " " -> ""
    [] s = " U " -> "U"
    [] OTHER -> s

\* the value a dialog widget yields for a field of the given type
ValueOf(ftype, bit) ==
  IF ftype = "number" THEN (IF bit = 0 THEN 0 ELSE 7)
  ELSE (IF bit = 0 THEN "" ELSE "a")

\* ------------------------------------------------------- physical schema
_ddl_for_field(ftype) ==
  CASE ftype \in {"text", "date", "file", "image", "path", "select"} ->
         "TEXT NOT NULL DEFAULT ''"
    [] ftype = "number" -> "REAL NOT NULL DEFAULT 0"
    [] ftype \in {"bool", "relation"} -> "INTEGER NOT NULL DEFAULT 0"

\* the DEFAULT a column declared with ddl_type gives a row that omits it
DefaultOf(ddl_type) == IF ddl_type = "TEXT NOT NULL DEFAULT ''" THEN "" ELSE 0

_ensure_data_table(d, t) ==
  IF t \in DOMAIN d THEN d
  ELSE d @@ (t :> [cols |-> <<>>, seq |-> 0, rows |-> EmptyMap])

_table_columns(d, t) == {d[t].cols[i].name : i \in DOMAIN d[t].cols}

ColumnDDL(d, t, c) ==
  d[t].cols[CHOOSE i \in DOMAIN d[t].cols : d[t].cols[i].name = c].ddl

ColumnDefault(d, t, c) == DefaultOf(ColumnDDL(d, t, c))

\* ALTER TABLE ... ADD COLUMN: existing rows read the column's default
AlterAddColumn(d, t, col, ddl_type) ==
  LET tab == d[t]
      newrows == [r \in DOMAIN tab.rows |->
                    [tab.rows[r] EXCEPT
                       !.vals = (col :> DefaultOf(ddl_type)) @@ tab.rows[r].vals]]
  IN [d EXCEPT ![t] = [cols |-> Append(tab.cols, [name |-> col, ddl |-> ddl_type]),
                       seq |-> tab.seq,
                       rows |-> newrows]]

\* _ensure_column without the look at _table_columns
_ensure_column_always_alters(d, t, col, ddl_type) == AlterAddColumn(d, t, col, ddl_type)

\* _ensure_column that never issues the ALTER TABLE
_ensure_column_never_alters(d, t, col, ddl_type) == d

_ensure_column(d, t, col, ddl_type) ==
  IF col \in _table_columns(d, t) THEN d ELSE AlterAddColumn(d, t, col, ddl_type)

\* ------------------------------------------------------------- catalog
FieldsOf(mf, t, active_only) ==
  {i \in DOMAIN mf : mf[i].table_id = t /\ (active_only => mf[i].active = 1)}

\* ORDER BY COALESCE(position, id) ASC, id ASC
FieldBefore(mf, i, j) ==
  \/ mf[i].position < mf[j].position
  \/ mf[i].position = mf[j].position /\ i < j

RECURSIVE OrderFields(_, _)
OrderFields(mf, S) ==
  IF S = {} THEN <<>>
  ELSE LET m == CHOOSE i \in S : \A j \in S \ {i} : FieldBefore(mf, i, j)
       IN <<m>> \o OrderFields(mf, S \ {m})

list_fields(mf, t, active_only) == OrderFields(mf, FieldsOf(mf, t, active_only))

RECURSIVE MaxPosition(_, _)
MaxPosition(mf, S) ==
  IF S = {} THEN 0
  ELSE LET i == CHOOSE x \in S : TRUE
       IN Max(mf[i].position, MaxPosition(mf, S \ {i}))

_next_field_position(mf, t) == MaxPosition(mf, FieldsOf(mf, t, FALSE)) + 1

\* add_field up to and including the commit of the field row
add_field_row(mf, t, name, ftype, options) ==
  Append(mf, [table_id |-> t, name |-> name, ftype |-> ftype, active |-> 1,
              position |-> _next_field_position(mf, t), options |-> options])

\* add_field after the commit: provision storage and the backing column
add_field_column(d, t, field_id, ftype) ==
  _ensure_column(_ensure_data_table(d, t), t, field_id, _ddl_for_field(ftype))

\* options or {}: what add_field is given when the caller has no options
NoOptions == EmptyMap

\* the type-specific checks on options (a select's options are always given
\* as a list of strings here; an absent target_table_id is None, not an int)
add_field_options_valid(ftype, options) ==
  /\ ftype = "relation" =>
       /\ "target_table_id" \in DOMAIN options
       /\ options["target_table_id"] > 0

add_field_valid(name, ftype, options) ==
  /\ strip(name) # ""
  /\ ftype \in FIELD_TYPES
  /\ add_field_options_valid(ftype, options)

rename_field(mf, field_id, new_name) ==
  IF field_id \in DOMAIN mf THEN [mf EXCEPT ![field_id].name = new_name] ELSE mf

\* deactivate_field whose UPDATE matches no row
deactivate_field_no_update(mf, field_id) == mf

deactivate_field(mf, field_id) ==
  IF field_id \in DOMAIN mf THEN [mf EXCEPT ![field_id].active = 0] ELSE mf

RECURSIVE reorder_from(_, _, _, _)
\* the UPDATE loop with WHERE id=? alone
reorder_from_any_table(mf, t, ids, i) ==
  IF i > Len(ids) THEN mf
  ELSE LET fid == ids[i]
           mf1 == IF fid \in DOMAIN mf
                  THEN [mf EXCEPT ![fid].position = i] ELSE mf
       IN reorder_from(mf1, t, ids, i + 1)

reorder_from(mf, t, ids, i) ==
  IF i > Len(ids) THEN mf
  ELSE LET fid == ids[i]
           mf1 == IF fid \in DOMAIN mf /\ mf[fid].table_id = t
                  THEN [mf EXCEPT ![fid].position = i] ELSE mf
       IN reorder_from(mf1, t, ids, i + 1)

\* reorder_fields that returns before its UPDATE loop
reorder_fields_no_update(mf, t, ordered_field_ids) == mf

reorder_fields(mf, t, ordered_field_ids) ==
  LET ids == SelectSeq(ordered_field_ids, LAMBDA x : x > 0)
  IN IF ids = <<>> THEN mf ELSE reorder_from(mf, t, ids, 1)

\* ------------------------------------------- projects, tables and views
\* meta_projects, meta_tables and meta_views are [seq, rows]: rows maps the
\* ids in use to their row, seq is the AUTOINCREMENT high-water mark.  A
\* parent_id / project_id of 0 stands for NULL.  A call yields ok = FALSE and
\* the exception in err when it raised: nothing of that call is committed.
Failed(err) == [ok |-> FALSE, err |-> err, id |-> 0]

NamesIn(rows) == {rows[i].name : i \in DOMAIN rows}

Insert(tab, row) ==
  [seq |-> tab.seq + 1, rows |-> ((tab.seq + 1) :> row) @@ tab.rows]

Delete(tab, id) ==
  [seq |-> tab.seq, rows |-> [i \in DOMAIN tab.rows \ {id} |-> tab.rows[i]]]

\* name UNIQUE; FOREIGN KEY(parent_id) with PRAGMA foreign_keys = ON: the
\* key is looked up once the row is in the table, so that a parent_id equal
\* to the id the row receives satisfies it
create_project(mp, name, parent_id) ==
  IF strip(name) = "" THEN Failed("ValueError")
  ELSE IF strip(name) \in NamesIn(mp.rows) THEN Failed("IntegrityError")
  ELSE IF parent_id # 0 /\ parent_id \notin DOMAIN mp.rows \cup {mp.seq + 1}
       THEN Failed("IntegrityError")
  ELSE [ok |-> TRUE, err |-> "", id |-> mp.seq + 1,
        projects |-> Insert(mp, [name |-> strip(name), parent_id |-> parent_id])]

\* update_project(project_id, **kwargs): kwargs holds the arguments that
\* are not None; only name and color reach the UPDATE, and color is not a
\* column of the model
update_project(mp, project_id, kwargs) ==
  IF "name" \in DOMAIN kwargs /\ strip(kwargs.name) = "" THEN Failed("ValueError")
  ELSE IF "name" \notin DOMAIN kwargs \/ project_id \notin DOMAIN mp.rows
       THEN [ok |-> TRUE, err |-> "", id |-> project_id, projects |-> mp]
  ELSE IF strip(kwargs.name) \in NamesIn([q \in DOMAIN mp.rows \ {project_id} |-> mp.rows[q]])
       THEN Failed("IntegrityError")
  ELSE [ok |-> TRUE, err |-> "", id |-> project_id,
        projects |-> [mp EXCEPT !.rows[project_id].name = strip(kwargs.name)]]

\* delete_project: the subprojects first, each by a recursive call, then
\* the tables of the project are detached and the project row is deleted.
\* A project that is its own parent is the first of its own subprojects:
\* the calls nest until Python raises RecursionError, nothing written
RECURSIVE delete_project(_, _, _)
RECURSIVE delete_children(_, _, _)
delete_children(mp, mt, children) ==
  IF children = {} THEN [projects |-> mp, tables |-> mt, err |-> ""]
  ELSE LET cid == CHOOSE c \in children : \A o \in children : c <= o
           r == delete_project(mp, mt, cid)
       IN IF r.err # "" THEN r
          ELSE delete_children(r.projects, r.tables, children \ {cid})

\* delete_project without the calls for the subprojects: the foreign key
\* (ON DELETE SET NULL) makes them top-level projects
delete_project_not_recursive(mp, mt, project_id) ==
  LET detached == [t \in DOMAIN mt.rows |->
                     IF mt.rows[t].project_id = project_id
                     THEN [mt.rows[t] EXCEPT !.project_id = 0]
                     ELSE mt.rows[t]]
      orphaned == [p \in DOMAIN mp.rows \ {project_id} |->
                     IF mp.rows[p].parent_id = project_id
                     THEN [mp.rows[p] EXCEPT !.parent_id = 0]
                     ELSE mp.rows[p]]
  IN [projects |-> [seq |-> mp.seq, rows |-> orphaned],
      tables |-> [seq |-> mt.seq, rows |-> detached], err |-> ""]

delete_project(mp, mt, project_id) ==
  IF project_id \in DOMAIN mp.rows /\ mp.rows[project_id].parent_id = project_id
  THEN [projects |-> mp, tables |-> mt, err |-> "RecursionError"]
  ELSE
  LET children == {c \in DOMAIN mp.rows : mp.rows[c].parent_id = project_id}
      r == delete_children(mp, mt, children)
      detached == [t \in DOMAIN r.tables.rows |->
                     IF r.tables.rows[t].project_id = project_id
                     THEN [r.tables.rows[t] EXCEPT !.project_id = 0]
                     ELSE r.tables.rows[t]]
  IN IF r.err # "" THEN r
     ELSE [projects |-> Delete(r.projects, project_id),
           tables |-> [seq |-> r.tables.seq, rows |-> detached], err |-> ""]

\* name UNIQUE; FOREIGN KEY(project_id); then the data table is provisioned
create_table(mt, mp, d, name, project_id) ==
  IF strip(name) = "" THEN Failed("ValueError")
  ELSE IF strip(name) \in NamesIn(mt.rows) THEN Failed("IntegrityError")
  ELSE IF project_id # 0 /\ project_id \notin DOMAIN mp.rows THEN Failed("IntegrityError")
  ELSE [ok |-> TRUE, err |-> "", id |-> mt.seq + 1,
        tables |-> Insert(mt, [name |-> strip(name), project_id |-> project_id]),
        data |-> _ensure_data_table(d, mt.seq + 1)]

\* rename_table on a meta_tables whose name is not UNIQUE
rename_table_no_unique(mt, t, new_name) ==
  IF strip(new_name) = "" THEN Failed("ValueError")
  ELSE IF t \notin DOMAIN mt.rows THEN [ok |-> TRUE, err |-> "", id |-> t, tables |-> mt]
  ELSE [ok |-> TRUE, err |-> "", id |-> t,
        tables |-> [mt EXCEPT !.rows[t].name = strip(new_name)]]

\* UPDATE ... WHERE id=?: no row, no change, no error
rename_table(mt, t, new_name) ==
  IF strip(new_name) = "" THEN Failed("ValueError")
  ELSE IF t \notin DOMAIN mt.rows THEN [ok |-> TRUE, err |-> "", id |-> t, tables |-> mt]
  ELSE IF strip(new_name) \in NamesIn([i \in DOMAIN mt.rows \ {t} |-> mt.rows[i]])
       THEN Failed("IntegrityError")
  ELSE [ok |-> TRUE, err |-> "", id |-> t,
        tables |-> [mt EXCEPT !.rows[t].name = strip(new_name)]]

ViewsOf(mv, t) == {v \in DOMAIN mv.rows : mv.rows[v].table_id = t}

\* UNIQUE(table_id, name); FOREIGN KEY(table_id)
create_view(mv, mt, t, name) ==
  IF strip(name) = "" THEN Failed("ValueError")
  ELSE IF t \notin DOMAIN mt.rows THEN Failed("IntegrityError")
  ELSE IF \E v \in ViewsOf(mv, t) : mv.rows[v].name = strip(name)
       THEN Failed("IntegrityError")
  ELSE [ok |-> TRUE, err |-> "", id |-> mv.seq + 1,
        views |-> Insert(mv, [table_id |-> t, name |-> strip(name)])]

delete_view(mv, view_id) == Delete(mv, view_id)

\* delete_table: DELETE FROM meta_tables, which the foreign keys of
\* meta_fields and meta_views follow (ON DELETE CASCADE), then DROP TABLE IF
\* EXISTS data_<id>. A deleted row of meta_fields stays in the sequence as
\* a row of no table (table_id 0): AUTOINCREMENT never hands its id out again
delete_table(mt, mv, mf, d, t) ==
  [tables |-> Delete(mt, t),
   views |-> [seq |-> mv.seq,
              rows |-> [v \in DOMAIN mv.rows \ ViewsOf(mv, t) |-> mv.rows[v]]],
   fields |-> IF t \in DOMAIN mt.rows
              THEN [f \in DOMAIN mf |->
                      IF mf[f].table_id = t
                      THEN [mf[f] EXCEPT !.table_id = 0, !.active = 0]
                      ELSE mf[f]]
              ELSE mf,
   data |-> [x \in DOMAIN d \ {t} |-> d[x]]]

\* add_field as a whole: validation, the INSERT (FOREIGN KEY(table_id)),
\* then the backing column
add_field(mf, mt, d, t, name, ftype, options) ==
  IF ~add_field_valid(name, ftype, options) THEN Failed("ValueError")
  ELSE IF t \notin DOMAIN mt.rows THEN Failed("IntegrityError")
  ELSE [ok |-> TRUE, err |-> "", id |-> Len(mf) + 1,
        fields |-> add_field_row(mf, t, strip(name), ftype, options),
        data |-> add_field_column(d, t, Len(mf) + 1, ftype)]

\* ------------------------------------------------------------- records
MaxId(S) == IF S = {} THEN 0 ELSE CHOOSE m \in S : \A o \in S : o <= m

\* every repo call below yields [ok, data, rid]; ok = FALSE is the raised
\* sqlite3 error (a statement naming a column the table does not have)
Raised(d) == [ok |-> FALSE, data |-> d, rid |-> 0]
Done(d, rid) == [ok |-> TRUE, data |-> d, rid |-> rid]

\* the row an INSERT builds: given columns take the given values, the
\* others their DEFAULT
NewRow(d, t, values, created_at, updated_at) ==
  [created_at |-> created_at, updated_at |-> updated_at,
   vals |-> [c \in _table_columns(d, t) |->
               IF c \in DOMAIN values THEN values[c] ELSE ColumnDefault(d, t, c)]]

get_record_by_id(d, t, record_id) ==
  LET d1 == _ensure_data_table(d, t)
  IN IF record_id \in DOMAIN d1[t].rows THEN d1[t].rows[record_id] ELSE None

\* f"#{i}"
HashLabel(i) == "#" \o ToString(i)

\* id DESC
RECURSIVE IdsDescending(_)
IdsDescending(S) ==
  IF S = {} THEN <<>>
  ELSE LET top == CHOOSE r \in S : \A o \in S : o <= r
       IN <<top>> \o IdsDescending(S \ {top})

\* list_relation_options with display_field_id = 0: the pairs (id, "#id")
\* of the target table, the largest id first, at most limit of them
list_relation_options(d0, t, limit) ==
  LET d == _ensure_data_table(d0, t)
      ids == IdsDescending(DOMAIN d[t].rows)
  IN [data |-> d,
      options |-> [i \in 1..(IF limit < Len(ids) THEN limit ELSE Len(ids)) |->
                     <<ids[i], HashLabel(ids[i])>>]]

\* add_record on a table whose id is INTEGER PRIMARY KEY without
\* AUTOINCREMENT: the next id is one more than the largest id in the table
add_record_without_autoincrement(d0, t, values_by_field_id, now1, now2) ==
  LET d == _ensure_data_table(d0, t)
      rid == MaxId(DOMAIN d[t].rows) + 1
      row == NewRow(d, t, values_by_field_id, now1, now2)
  IN Done([d EXCEPT ![t].rows = (rid :> row) @@ d[t].rows, ![t].seq = rid], rid)

\* now1, now2: the two successive readings of now_iso()
add_record(d0, t, values_by_field_id, now1, now2) ==
  LET d == _ensure_data_table(d0, t)
      rid == d[t].seq + 1
      row == NewRow(d, t, values_by_field_id, now1, now2)
  IN IF ~(DOMAIN values_by_field_id \subseteq _table_columns(d, t)) THEN Raised(d)
     ELSE Done([d EXCEPT ![t].rows = (rid :> row) @@ d[t].rows, ![t].seq = rid], rid)

\* created_at / updated_at = 0 stands for None (falsy: now_iso() is used)
add_record_with_id(d0, t, record_id, values_by_field_id, created_at, updated_at, now1, now2) ==
  LET d == _ensure_data_table(d0, t)
      c_at == IF created_at = 0 THEN now1 ELSE created_at
      u_at == IF updated_at = 0 THEN (IF created_at = 0 THEN now2 ELSE now1) ELSE updated_at
      row == NewRow(d, t, values_by_field_id, c_at, u_at)
  IN IF ~(DOMAIN values_by_field_id \subseteq _table_columns(d, t)) THEN Raised(d)
     ELSE Done([d EXCEPT ![t].rows = (record_id :> row) @@ d[t].rows,
                         ![t].seq = Max(d[t].seq, record_id)], record_id)

update_record(d0, t, record_id, values_by_field_id, now1) ==
  IF DOMAIN values_by_field_id = {} THEN Done(d0, record_id)
  ELSE LET d == _ensure_data_table(d0, t)
           old == d[t].rows[record_id]
           row == [created_at |-> old.created_at, updated_at |-> now1,
                   vals |-> [c \in DOMAIN old.vals |->
                               IF c \in DOMAIN values_by_field_id
                               THEN values_by_field_id[c] ELSE old.vals[c]]]
       IN IF ~(DOMAIN values_by_field_id \subseteq _table_columns(d, t)) THEN Raised(d)
          ELSE IF record_id \notin DOMAIN d[t].rows THEN Done(d, record_id)
          ELSE Done([d EXCEPT ![t].rows[record_id] = row], record_id)

delete_record(d0, t, record_id) ==
  LET d == _ensure_data_table(d0, t)
  IN Done([d EXCEPT ![t].rows = [r \in DOMAIN d[t].rows \ {record_id} |-> d[t].rows[r]]],
          record_id)

\* ---------------------------------------------------------- list_records
limit_default == 500

\* int(s): the strings of the model int() accepts, with their value; on any
\* other it raises
IntOf ==
  ("0" :> 0) @@ ("1" :> 1) @@ ("2" :> 2) @@ ("3" :> 3) @@ ("4" :> 4) @@ ("7" :> 7) @@ ("9" :> 9)

\* float(q.replace(",", ".")): the same strings, and one with a comma
FloatOf == IntOf @@ ("7,0" :> 7)

\* q.lower()
Lower(q) == IF q = "SI" THEN "si" ELSE q

\* the order of the text values of the model, as SQLite compares them
Rank == ("" :> 0) @@ ("a" :> 1) @@ ("ab" :> 2) @@ ("b" :> 3)

\* the substrings of a value of the model; the values not listed are one
\* character long
Substrings(v) ==
  CASE v = "" -> {""}
    [] v = "ab" -> {"", "a", "b", "ab"}
    [] OTHER -> {"", v}

\* col LIKE '%x%': in x, % stands for any run of characters and _ for any
\* one character
Like(v, x) ==
  CASE x = "%" -> TRUE
    [] x = "_" -> v # ""
    [] OTHER -> x \in Substrings(v)

TextTypes == {"text", "file", "select", "path"}

\* the clause the search adds for one active field; FALSE where it adds none
SearchField(ftype, q, v) ==
  CASE ftype \in TextTypes \cup {"date"} -> Like(v, q)
    [] ftype = "number" -> q \in DOMAIN FloatOf /\ v = FloatOf[q]
    [] ftype = "bool" ->
         \/ Lower(q) \in {"si", "sí", "true", "1", "yes"} /\ v = 1
         \/ Lower(q) \in {"no", "false", "0"} /\ v = 0
    [] ftype = "relation" -> q \in DOMAIN IntOf /\ v = IntOf[q]
    [] OTHER -> FALSE

\* the free-text part of WHERE: nothing for a query that strips to "", else
\* CAST(id AS TEXT) LIKE and the clauses of the active fields, OR-joined
SearchClause(mf, live, query, rid, row) ==
  LET q == strip(query)
  IN \/ q = ""
     \/ Like(ToString(rid), q)
     \/ \E f \in live : SearchField(mf[f].ftype, q, row.vals[f])

\* the clauses of a number filter with > and < in place of >= and <=
FilterClause_strict_bounds(ftype, fval, v) ==
  CASE ftype = "number" ->
         /\ "min" \in DOMAIN fval => v > fval["min"]
         /\ "max" \in DOMAIN fval => v < fval["max"]
    [] ftype \in TextTypes ->
         IF "equals" \in DOMAIN fval /\ strip(fval["equals"]) # ""
         THEN v = fval["equals"]
         ELSE IF "contains" \in DOMAIN fval /\ strip(fval["contains"]) # ""
         THEN Like(v, fval["contains"])
         ELSE TRUE
    [] OTHER -> TRUE

\* the clauses one filter entry appends for a field of type ftype, evaluated
\* on the column value v (fval is a dict)
FilterClause(ftype, fval, v) ==
  CASE ftype \in TextTypes ->
         IF "equals" \in DOMAIN fval /\ strip(fval["equals"]) # ""
         THEN v = fval["equals"]
         ELSE IF "contains" \in DOMAIN fval /\ strip(fval["contains"]) # ""
         THEN Like(v, fval["contains"])
         ELSE TRUE
    [] ftype = "number" ->
         /\ "min" \in DOMAIN fval => v >= fval["min"]
         /\ "max" \in DOMAIN fval => v <= fval["max"]
    [] ftype = "date" ->
         /\ ("from" \in DOMAIN fval /\ strip(fval["from"]) # "") => Rank[v] >= Rank[fval["from"]]
         /\ ("to" \in DOMAIN fval /\ strip(fval["to"]) # "") => Rank[v] <= Rank[fval["to"]]
    [] ftype = "bool" ->
         ("is" \in DOMAIN fval /\ fval["is"] \in {0, 1}) => v = fval["is"]
    [] ftype = "relation" ->
         ("is" \in DOMAIN fval /\ fval["is"] > 0) => v = fval["is"]
    [] OTHER -> TRUE

\* WHERE with the clauses of the entries OR-joined
Where_or_joined(mf, live, q, filters, rid, row) ==
  /\ SearchClause(mf, live, q, rid, row)
  /\ \E k \in DOMAIN filters :
       /\ k \in DOMAIN IntOf /\ IntOf[k] \in live
       /\ FilterClause(mf[IntOf[k]].ftype, filters[k], row.vals[IntOf[k]])

\* WHERE: the search clause and the clauses of every entry that names an
\* active field of the table, AND-joined
Where(mf, live, q, filters, rid, row) ==
  /\ SearchClause(mf, live, q, rid, row)
  /\ \A k \in DOMAIN filters :
       (k \in DOMAIN IntOf /\ IntOf[k] \in live) =>
         FilterClause(mf[IntOf[k]].ftype, filters[k], row.vals[IntOf[k]])

\* the value ORDER BY compares: the id (sort_field_id None, here 0, or not
\* an active field of the table) or the column of the field
OrderKey(mf, live, sort_field_id, rid, row) ==
  IF sort_field_id \notin live THEN rid
  ELSE IF mf[sort_field_id].ftype \in {"number", "bool", "relation"}
       THEN row.vals[sort_field_id]
       ELSE Rank[row.vals[sort_field_id]]

\* (sort_dir or "DESC").upper(), and DESC for what is then neither ASC nor
\* DESC; "" stands for None too
SortDir(sort_dir) ==
  LET upper == CASE sort_dir = "" -> "DESC"
                 [] sort_dir = "asc" -> "ASC"
                 [] sort_dir = "desc" -> "DESC"
                 [] sort_dir = "x" -> "X"
                 [] OTHER -> sort_dir
  IN IF upper \in {"ASC", "DESC"} THEN upper ELSE "DESC"

\* ORDER BY order_col sort_dir, id ASC
RECURSIVE OrderRecords_ties_ascending(_, _, _)
OrderRecords_ties_ascending(key, asc, S) ==
  IF S = {} THEN <<>>
  ELSE LET first == CHOOSE r \in S : \A o \in S \ {r} :
                      \/ IF asc THEN key[r] < key[o] ELSE key[r] > key[o]
                      \/ key[r] = key[o] /\ r < o
       IN <<first>> \o OrderRecords_ties_ascending(key, asc, S \ {first})

\* ORDER BY order_col sort_dir, id DESC
RECURSIVE OrderRecords(_, _, _)
OrderRecords(key, asc, S) ==
  IF S = {} THEN <<>>
  ELSE LET first == CHOOSE r \in S : \A o \in S \ {r} :
                      \/ IF asc THEN key[r] < key[o] ELSE key[r] > key[o]
                      \/ key[r] = key[o] /\ r > o
       IN <<first>> \o OrderRecords(key, asc, S \ {first})

\* the ids of the rows list_records returns, in the order it returns them
list_records(mf, d0, t, query, limit, filters, sort_field_id, sort_dir) ==
  LET d == _ensure_data_table(d0, t)
      live == FieldsOf(mf, t, TRUE)
      rows == d[t].rows
      hits == {r \in DOMAIN rows : Where(mf, live, query, filters, r, rows[r])}
      key == [r \in hits |-> OrderKey(mf, live, sort_field_id, r, rows[r])]
      sorted == OrderRecords(key, SortDir(sort_dir) = "ASC", hits)
  IN SubSeq(sorted, 1, IF limit < Len(sorted) THEN limit ELSE Len(sorted))

\* ------------------------------------------------- TableView: undo stack
\* a command is the pair of closures of one handler, as the values they
\* captured: label says which handler built it.  was is history, not part of
\* the closures (undo_fn and redo_fn never read it): the row the handler
\* created (add) or found before it acted (edit, del)
Command(label, rid, cdata, old_vals, created_at, updated_at, was) ==
  [label |-> label, rid |-> rid, data |-> cdata, old_vals |-> old_vals,
   created_at |-> created_at, updated_at |-> updated_at, was |-> was]

\* TableView._update_undo_actions, on the (_undo, _undo_idx) just written
_update_undo_actions(stack, idx) ==
  /\ act_undo' = (idx > 0)
  /\ act_redo' = (idx < Len(stack))

\* push_cmd that ends without refreshing the two actions
push_cmd_update_skipped(stack, idx, guard) == UNCHANGED <<act_undo, act_redo>>

\* the last statement of push_cmd, which its early return skips
push_cmd_update(stack, idx, guard) ==
  IF guard THEN UNCHANGED <<act_undo, act_redo>> ELSE _update_undo_actions(stack, idx)

\* push_cmd without the early return on self._in_undo_redo
push_cmd_ignores_guard(stack, idx, guard, cmd) ==
  [stack |-> Append(SubSeq(stack, 1, idx), cmd), idx |-> idx + 1]

\* push_cmd without the slice self._undo[:self._undo_idx]
push_cmd_keeps_redo_branch(stack, idx, guard, cmd) ==
  IF guard THEN [stack |-> stack, idx |-> idx]
  ELSE [stack |-> Append(stack, cmd), idx |-> idx + 1]

\* push_cmd: yields the new (_undo, _undo_idx)
push_cmd(stack, idx, guard, cmd) ==
  IF guard THEN [stack |-> stack, idx |-> idx]
  ELSE [stack |-> Append(SubSeq(stack, 1, idx), cmd), idx |-> idx + 1]

\* an edit's undo closure that writes data, the new values, back
undo_fn_edit_writes_data(cmd, d, now1, now2) ==
  CASE cmd.label = "add" -> delete_record(d, table_id, cmd.rid)
    [] cmd.label = "edit" -> update_record(d, table_id, cmd.rid, cmd.data, now1)
    [] cmd.label = "del" ->
         add_record_with_id(d, table_id, cmd.rid, cmd.old_vals,
                            cmd.created_at, cmd.updated_at, now1, now2)

\* cmd["undo"]() and cmd["redo"]()
undo_fn(cmd, d, now1, now2) ==
  CASE cmd.label = "add" -> delete_record(d, table_id, cmd.rid)
    [] cmd.label = "edit" -> update_record(d, table_id, cmd.rid, cmd.old_vals, now1)
    [] cmd.label = "del" ->
         add_record_with_id(d, table_id, cmd.rid, cmd.old_vals,
                            cmd.created_at, cmd.updated_at, now1, now2)

\* a delete's redo closure that leaves the row in place
redo_fn_del_keeps_row(cmd, d, now1, now2) ==
  CASE cmd.label = "add" ->
         add_record_with_id(d, table_id, cmd.rid, cmd.data, 0, 0, now1, now2)
    [] cmd.label = "edit" -> update_record(d, table_id, cmd.rid, cmd.data, now1)
    [] cmd.label = "del" -> Done(d, cmd.rid)

\* an add's redo closure that inserts without the id
redo_fn_add_new_id(cmd, d, now1, now2) ==
  CASE cmd.label = "add" -> add_record(d, table_id, cmd.data, now1, now2)
    [] cmd.label = "edit" -> update_record(d, table_id, cmd.rid, cmd.data, now1)
    [] cmd.label = "del" -> delete_record(d, table_id, cmd.rid)

redo_fn(cmd, d, now1, now2) ==
  CASE cmd.label = "add" ->
         add_record_with_id(d, table_id, cmd.rid, cmd.data, 0, 0, now1, now2)
    [] cmd.label = "edit" -> update_record(d, table_id, cmd.rid, cmd.data, now1)
    [] cmd.label = "del" -> delete_record(d, table_id, cmd.rid)

\* TableView.reload: self.fields = list_fields(self.table_id)
reload(mf) == list_fields(mf, table_id, TRUE)

\* what a RecordDialog over self.fields can return from get_data()
DialogData(mf, flds) ==
  LET ids == {flds[i] : i \in DOMAIN flds}
  IN {[f \in ids |-> ValueOf(mf[f].ftype, bits[f])] : bits \in [ids -> {0, 1}]}

\* old_vals as edit_record / delete_record snapshot it over self.fields
Snapshot(old_row, flds) ==
  LET ids == {flds[i] : i \in DOMAIN flds}
  IN [f \in ids |-> IF f \in DOMAIN old_row.vals THEN old_row.vals[f] ELSE None]

\* the instants a handler can read: the clock may tick between two readings
Readings == {<<clock, clock + a>> : a \in {k \in {0, 1} : clock + k <= MaxClock}}

\* last: op names the handler and its outcome, rid the record / field /
\* stack index it acted on, n an op-specific count
Op(name, rid, n) == [op |-> name, rid |-> rid, n |-> n]

\* ------------------------------------------------------------------ Init
\* a freshly created table (create_table has provisioned data_1) opened in
\* a new TableView
Init ==
  /\ meta_fields = <<>>
  /\ data = (table_id :> [cols |-> <<>>, seq |-> 0, rows |-> EmptyMap])
  /\ clock = 1
  /\ undo_stack = <<>>
  /\ undo_idx = 0
  /\ in_undo_redo = FALSE
  /\ act_undo = FALSE
  /\ act_redo = FALSE
  /\ fields = <<>>
  /\ last = Op("init", 0, 0)
  /\ steps = 0
  /\ meta_projects = [seq |-> 0, rows |-> EmptyMap]
  /\ meta_tables = [seq |-> 1, rows |-> (table_id :> [name |-> "T", project_id |-> 0])]
  /\ meta_views = [seq |-> 1,
                   rows |-> (1 :> [table_id |-> table_id, name |-> "Principal"])]
  /\ current_table_view = table_id
  /\ relation_cache = EmptyMap

\* one more step of a run of at most max steps
Step(max) == steps < max /\ steps' = steps + 1

\* ------------------------------------------------- TableView: record CRUD
\* TableView.add_record, the dialog accepted with data d
TV_add_record ==
  /\ Step(MaxSteps)
  /\ data[table_id].seq < MaxRecords
  /\ undo_idx < MaxHistory
  /\ \E d \in DialogData(meta_fields, fields), now \in Readings :
       LET res == add_record(data, table_id, d, now[1], now[2])
           cmd == Command("add", res.rid, d, EmptyMap, 0, 0,
                          res.data[table_id].rows[res.rid])
           h == push_cmd(undo_stack, undo_idx, in_undo_redo, cmd)
       IN /\ clock' = now[2]
          /\ data' = res.data
          /\ IF res.ok
             THEN /\ undo_stack' = h.stack
                  /\ undo_idx' = h.idx
                  /\ push_cmd_update(h.stack, h.idx, in_undo_redo)
                  /\ last' = Op("add_record", res.rid, Len(undo_stack) - undo_idx)
             ELSE /\ UNCHANGED <<undo_stack, undo_idx, act_undo, act_redo>>
                  /\ last' = Op("add_record_error", 0, 0)
  /\ UNCHANGED <<meta_fields, in_undo_redo, fields>>
  /\ UNCHANGED <<catalogvars, current_table_view, relation_cache>>

\* TableView.edit_record on the selected row rid, the dialog accepted with d
TV_edit_record ==
  /\ Step(MaxSteps)
  /\ undo_idx < MaxHistory
  /\ \E rid \in DOMAIN data[table_id].rows, d \in DialogData(meta_fields, fields) :
       LET old_row == get_record_by_id(data, table_id, rid)
           old_vals == Snapshot(old_row, fields)
           res == update_record(data, table_id, rid, d, clock)
           cmd == Command("edit", rid, d, old_vals, 0, 0, old_row)
           h == push_cmd(undo_stack, undo_idx, in_undo_redo, cmd)
       IN /\ data' = res.data
          /\ IF res.ok
             THEN /\ undo_stack' = h.stack
                  /\ undo_idx' = h.idx
                  /\ push_cmd_update(h.stack, h.idx, in_undo_redo)
                  /\ last' = Op("edit_record", rid, Len(undo_stack) - undo_idx)
             ELSE /\ UNCHANGED <<undo_stack, undo_idx, act_undo, act_redo>>
                  /\ last' = Op("edit_record_error", rid, 0)
  /\ UNCHANGED <<meta_fields, clock, in_undo_redo, fields>>
  /\ UNCHANGED <<catalogvars, current_table_view, relation_cache>>

\* TableView.delete_record on the selected row rid, confirmed
TV_delete_record ==
  /\ Step(MaxSteps)
  /\ undo_idx < MaxHistory
  /\ \E rid \in DOMAIN data[table_id].rows :
       LET old_row == get_record_by_id(data, table_id, rid)
           old_vals == Snapshot(old_row, fields)
           res == delete_record(data, table_id, rid)
           cmd == Command("del", rid, EmptyMap, old_vals,
                          old_row.created_at, old_row.updated_at, old_row)
           h == push_cmd(undo_stack, undo_idx, in_undo_redo, cmd)
       IN /\ data' = res.data
          /\ undo_stack' = h.stack
          /\ undo_idx' = h.idx
          /\ push_cmd_update(h.stack, h.idx, in_undo_redo)
          /\ last' = Op("delete_record", rid, Len(undo_stack) - undo_idx)
  /\ UNCHANGED <<meta_fields, clock, in_undo_redo, fields>>
  /\ UNCHANGED <<catalogvars, current_table_view, relation_cache>>

\* ------------------------------------------------- TableView: undo / redo
\* what cmd["undo"]() / cmd["redo"]() may do besides its repository call:
\* either nothing, or call push_cmd (a handler that records, run from inside
\* the closure).  It yields the (_undo, _undo_idx) the closure leaves behind.
Reentrant == {FALSE, TRUE}

InsideClosure(stack, idx, guard, reenters) ==
  IF reenters
  THEN push_cmd(stack, idx, guard, Command("edit", 1, EmptyMap, EmptyMap, 0, 0, None))
  ELSE [stack |-> stack, idx |-> idx]

\* TableView.undo
undo ==
  /\ Step(MaxSteps)
  /\ IF undo_idx <= 0
     THEN /\ last' = Op("undo_noop", 0, 0)
          /\ UNCHANGED <<data, clock, undo_stack, undo_idx, in_undo_redo, act_undo, act_redo>>
     ELSE \E now \in Readings, reenters \in Reentrant :
            LET flag == TRUE
                idx == undo_idx - 1
                cmd == undo_stack[idx + 1]
                res == undo_fn(cmd, data, now[1], now[2])
                h == InsideClosure(undo_stack, idx, flag, reenters)
            IN /\ data' = res.data
               /\ clock' = IF cmd.label = "del" /\ cmd.created_at = 0 /\ cmd.updated_at = 0
                           THEN now[2] ELSE clock
               /\ undo_stack' = h.stack
               /\ undo_idx' = h.idx
               /\ in_undo_redo' = FALSE
               /\ IF res.ok THEN _update_undo_actions(h.stack, h.idx)
                  ELSE UNCHANGED <<act_undo, act_redo>>
               /\ last' = Op(IF res.ok THEN "undo" ELSE "undo_error", idx,
                             IF reenters THEN 1 ELSE 0)
  /\ UNCHANGED <<meta_fields, fields>>
  /\ UNCHANGED <<catalogvars, current_table_view, relation_cache>>

\* TableView.redo
redo ==
  /\ Step(MaxSteps)
  /\ IF undo_idx >= Len(undo_stack)
     THEN /\ last' = Op("redo_noop", 0, 0)
          /\ UNCHANGED <<data, clock, undo_stack, undo_idx, in_undo_redo, act_undo, act_redo>>
     ELSE \E now \in Readings, reenters \in Reentrant :
            LET flag == TRUE
                cmd == undo_stack[undo_idx + 1]
                res == redo_fn(cmd, data, now[1], now[2])
                h == InsideClosure(undo_stack, undo_idx, flag, reenters)
            IN /\ data' = res.data
               /\ clock' = IF cmd.label = "add" THEN now[2] ELSE clock
               /\ undo_stack' = h.stack
               /\ undo_idx' = IF res.ok THEN h.idx + 1 ELSE h.idx
               /\ in_undo_redo' = FALSE
               /\ IF res.ok THEN _update_undo_actions(h.stack, h.idx + 1)
                  ELSE UNCHANGED <<act_undo, act_redo>>
               /\ last' = Op(IF res.ok THEN "redo" ELSE "redo_error", undo_idx,
                             IF reenters THEN 1 ELSE 0)
  /\ UNCHANGED <<meta_fields, fields>>
  /\ UNCHANGED <<catalogvars, current_table_view, relation_cache>>

\* ------------------------------------------------------------ FieldsPanel
\* the ids listed in the panel: FieldsPanel.reload
PanelIds == list_fields(meta_fields, table_id, TRUE)

\* AddFieldDialog.get_data for type select: the pieces trimmed, the empty
\* ones dropped, then each kept at its first occurrence only
trim(s) ==
  CASE s = " " -> "" [] s = " Done" -> "Done" [] s = "Done " -> "Done" [] OTHER -> s

RECURSIVE select_opts(_, _)
select_opts(parts, opts) ==
  IF parts = <<>> THEN opts
  ELSE LET x == trim(Head(parts))
       IN select_opts(Tail(parts),
                      IF x = "" \/ \E i \in DOMAIN opts : opts[i] = x
                      THEN opts ELSE Append(opts, x))

get_data(name, ftype, parts) ==
  [name |-> strip(name), ftype |-> ftype,
   options |-> IF ftype = "select" THEN [options |-> select_opts(parts, <<>>)]
               ELSE NoOptions]

\* FieldsPanel.add_field, the dialog accepted with (name, ftype)
FP_add_field ==
  /\ Step(MaxSteps)
  /\ Len(meta_fields) < MaxSessionFields
  /\ \E name \in NameInputs, ftype \in FTypeInputs :
       IF add_field_valid(name, ftype, NoOptions)
       THEN LET mf == add_field_row(meta_fields, table_id, strip(name), ftype, NoOptions)
                field_id == Len(mf)
            IN /\ meta_fields' = mf
               /\ data' = add_field_column(data, table_id, field_id, ftype)
               /\ fields' = reload(mf)
               /\ last' = Op("add_field", field_id, 0)
       ELSE /\ UNCHANGED <<meta_fields, data, fields>>
            /\ last' = Op("add_field_invalid", 0, 0)
  /\ UNCHANGED <<clock, undo_stack, undo_idx, in_undo_redo, act_undo, act_redo>>
  /\ UNCHANGED <<catalogvars, current_table_view, relation_cache>>

\* FieldsPanel._context_menu / do_del on the listed field fid
FP_deactivate_field ==
  /\ Step(MaxSteps)
  /\ \E i \in DOMAIN PanelIds :
       LET fid == PanelIds[i]
       IN /\ meta_fields' = deactivate_field(meta_fields, fid)
          /\ fields' = reload(meta_fields')
          /\ last' = Op("deactivate_field", fid, 0)
  /\ UNCHANGED <<data, clock, undo_stack, undo_idx, in_undo_redo, act_undo, act_redo>>
  /\ UNCHANGED <<catalogvars, current_table_view, relation_cache>>

\* a second passes
Tick(max) ==
  /\ Step(max)
  /\ clock < MaxClock
  /\ clock' = clock + 1
  /\ last' = Op("tick", 0, 0)
  /\ UNCHANGED <<meta_fields, data, undo_stack, undo_idx, in_undo_redo, fields,
                 act_undo, act_redo>>
  /\ UNCHANGED <<catalogvars, current_table_view, relation_cache>>

\* the table session: the handlers of one open TableView and of its
\* FieldsPanel that the undo stack can observe
Next ==
  \/ TV_add_record
  \/ TV_edit_record
  \/ TV_delete_record
  \/ undo
  \/ redo
  \/ FP_add_field
  \/ FP_deactivate_field
  \/ Tick(MaxSteps)

Spec == Init /\ [][Next]_vars

\* ------------------------------------ TableView: a session of record edits
\* TableView.apply_inline_edit on the cell of record rid and field fid, the
\* editor committing new_raw (a value of the column's type, never None)
TV_apply_inline_edit ==
  /\ Step(MaxSteps)
  /\ undo_idx < MaxHistory
  /\ \E rid \in DOMAIN data[table_id].rows, i \in DOMAIN fields, bit \in {0, 1} :
       LET fid == fields[i]
           old_row == get_record_by_id(data, table_id, rid)
           old_raw == old_row.vals[fid]
           new_raw == ValueOf(meta_fields[fid].ftype, bit)
           res == update_record(data, table_id, rid, (fid :> new_raw), clock)
           cmd == Command("edit", rid, (fid :> new_raw), (fid :> old_raw), 0, 0, old_row)
           h == push_cmd(undo_stack, undo_idx, in_undo_redo, cmd)
       IN IF old_raw = new_raw
          THEN /\ UNCHANGED <<data, undo_stack, undo_idx, act_undo, act_redo>>
               /\ last' = Op("inline_edit_same", rid, 0)
          ELSE /\ data' = res.data
               /\ undo_stack' = h.stack
               /\ undo_idx' = h.idx
               /\ push_cmd_update(h.stack, h.idx, in_undo_redo)
               /\ last' = Op("inline_edit", rid, Len(undo_stack) - undo_idx)
  /\ UNCHANGED <<meta_fields, clock, in_undo_redo, fields>>
  /\ UNCHANGED <<catalogvars, current_table_view, relation_cache>>

\* a table with a text field and a number field (add_field twice on the
\* initial database), no record yet, opened in a new TableView
HistoryCatalog ==
  LET mt == [seq |-> 1, rows |-> (table_id :> [name |-> "T", project_id |-> 0])]
      d == (table_id :> [cols |-> <<>>, seq |-> 0, rows |-> EmptyMap])
      f1 == add_field(<<>>, mt, d, table_id, "A", "text", NoOptions)
  IN add_field(f1.fields, mt, f1.data, table_id, "B", "number", NoOptions)

InitHistory ==
  /\ meta_fields = HistoryCatalog.fields
  /\ data = HistoryCatalog.data
  /\ clock = 1
  /\ undo_stack = <<>>
  /\ undo_idx = 0
  /\ in_undo_redo = FALSE
  /\ act_undo = FALSE
  /\ act_redo = FALSE
  /\ fields = reload(HistoryCatalog.fields)
  /\ last = Op("init", 0, 0)
  /\ steps = 0
  /\ meta_projects = [seq |-> 0, rows |-> EmptyMap]
  /\ meta_tables = [seq |-> 1, rows |-> (table_id :> [name |-> "T", project_id |-> 0])]
  /\ meta_views = [seq |-> 1,
                   rows |-> (1 :> [table_id |-> table_id, name |-> "Principal"])]
  /\ current_table_view = table_id
  /\ relation_cache = EmptyMap

NextHistory ==
  \/ TV_add_record
  \/ TV_edit_record
  \/ TV_apply_inline_edit
  \/ TV_delete_record
  \/ undo
  \/ redo

SpecHistory == InitHistory /\ [][NextHistory]_vars

\* ------------------------------------------- MetaRepository, call by call
sessionvars == <<undo_stack, undo_idx, in_undo_redo, fields, act_undo, act_redo>>

RepoFTypeInputs == FTypeInputs \cup {"blob"}

\* the value maps a caller can pass for table t: any subset of its columns
ValueFor(ddl_type, bit) ==
  IF ddl_type = "TEXT NOT NULL DEFAULT ''" THEN (IF bit = 0 THEN "" ELSE "a")
  ELSE (IF bit = 0 THEN 0 ELSE 7)

ValueMaps(d, t) ==
  UNION {{[c \in S |-> ValueFor(ColumnDDL(d, t, c), bits[c])] : bits \in [S -> {0, 1}]} :
           S \in SUBSET _table_columns(d, t)}

\* the same for an INSERT, where leaving a column out already yields its
\* default: the given columns get a non-default value
InsertMaps(d, t) ==
  {[c \in S |-> ValueFor(ColumnDDL(d, t, c), 1)] : S \in SUBSET _table_columns(d, t)}

\* ordered_field_ids arguments: every list of at most two ids, 0 included
IdLists ==
  LET ids == 0..MaxFields
  IN {<<a>> : a \in ids} \cup {<<a, b>> : a \in ids, b \in ids}

Repo_add_field ==
  /\ Step(MaxRepoSteps)
  /\ Len(meta_fields) < MaxFields
  /\ \E name \in NameInputs, ftype \in RepoFTypeInputs :
       IF add_field_valid(name, ftype, NoOptions)
       THEN LET mf == add_field_row(meta_fields, table_id, strip(name), ftype, NoOptions)
            IN /\ meta_fields' = mf
               /\ data' = add_field_column(data, table_id, Len(mf), ftype)
               /\ last' = Op("add_field", Len(mf), 0)
       ELSE /\ UNCHANGED <<meta_fields, data>>
            /\ last' = Op("add_field_invalid", 0, 0)
  /\ UNCHANGED <<clock, sessionvars>>
  /\ UNCHANGED <<catalogvars, current_table_view, relation_cache>>

Repo_rename_field ==
  /\ Step(MaxRepoSteps)
  /\ \E fid \in 1..(Len(meta_fields) + 1), name \in RenameInputs :
       IF strip(name) # ""
       THEN /\ meta_fields' = rename_field(meta_fields, fid, strip(name))
            /\ last' = Op("rename_field", fid, 0)
       ELSE /\ UNCHANGED meta_fields
            /\ last' = Op("rename_field_invalid", 0, 0)
  /\ UNCHANGED <<data, clock, sessionvars>>
  /\ UNCHANGED <<catalogvars, current_table_view, relation_cache>>

Repo_deactivate_field ==
  /\ Step(MaxRepoSteps)
  /\ \E fid \in 1..(Len(meta_fields) + 1) :
       /\ meta_fields' = deactivate_field(meta_fields, fid)
       /\ last' = Op("deactivate_field", fid, 0)
  /\ UNCHANGED <<data, clock, sessionvars>>
  /\ UNCHANGED <<catalogvars, current_table_view, relation_cache>>

Repo_reorder_fields ==
  /\ Step(MaxRepoSteps)
  /\ \E ids \in IdLists :
       /\ meta_fields' = reorder_fields(meta_fields, table_id, ids)
       /\ last' = Op("reorder_fields", 0, 0)
  /\ UNCHANGED <<data, clock, sessionvars>>
  /\ UNCHANGED <<catalogvars, current_table_view, relation_cache>>

Repo_add_record ==
  /\ Step(MaxRepoSteps)
  /\ data[table_id].seq < MaxRepoRecords
  /\ \E v \in InsertMaps(data, table_id), now \in Readings :
       LET res == add_record(data, table_id, v, now[1], now[2])
       IN /\ data' = res.data
          /\ clock' = now[2]
          /\ last' = Op("add_record", res.rid, 0)
  /\ UNCHANGED <<meta_fields, sessionvars>>
  /\ UNCHANGED <<catalogvars, current_table_view, relation_cache>>

Repo_update_record ==
  /\ Step(MaxRepoSteps)
  /\ \E rid \in 1..MaxRepoRecords, v \in ValueMaps(data, table_id) :
       LET res == update_record(data, table_id, rid, v, clock)
       IN /\ data' = res.data
          /\ last' = Op("update_record", rid, 0)
  /\ UNCHANGED <<meta_fields, clock, sessionvars>>
  /\ UNCHANGED <<catalogvars, current_table_view, relation_cache>>

Repo_delete_record ==
  /\ Step(MaxRepoSteps)
  /\ \E rid \in 1..MaxRepoRecords :
       /\ data' = delete_record(data, table_id, rid).data
       /\ last' = Op("delete_record", rid, 0)
  /\ UNCHANGED <<meta_fields, clock, sessionvars>>
  /\ UNCHANGED <<catalogvars, current_table_view, relation_cache>>

Repo_add_record_with_id ==
  /\ Step(MaxRepoSteps)
  /\ \E rid \in 1..MaxRepoRecords, v \in InsertMaps(data, table_id), c_at \in {0, 1} :
       LET res == add_record_with_id(data, table_id, rid, v, c_at, c_at, clock, clock)
       IN /\ data' = res.data
          /\ last' = Op("add_record_with_id", rid, 0)
  /\ UNCHANGED <<meta_fields, clock, sessionvars>>
  /\ UNCHANGED <<catalogvars, current_table_view, relation_cache>>

NextRepo ==
  \/ Repo_add_field
  \/ Repo_rename_field
  \/ Repo_deactivate_field
  \/ Repo_reorder_fields
  \/ Repo_add_record
  \/ Repo_update_record
  \/ Repo_delete_record
  \/ Repo_add_record_with_id
  \/ Tick(MaxRepoSteps)

SpecRepo == Init /\ [][NextRepo]_vars

\* ------------------------------- MetaRepository with an interrupted call
\* add_field cut short (process killed) between the commit of the field row
\* and the ALTER TABLE that adds the backing column: the row is durable, the
\* column is missing; the application starts again and the call is retried
\* through Repo_add_field
Repo_add_field_interrupted ==
  /\ Step(MaxRepoSteps)
  /\ Len(meta_fields) < MaxFields
  /\ \E name \in NameInputs, ftype \in FTypeInputs :
       /\ add_field_valid(name, ftype, NoOptions)
       /\ meta_fields' = add_field_row(meta_fields, table_id, strip(name), ftype, NoOptions)
       /\ last' = Op("add_field_interrupted", Len(meta_fields) + 1, 0)
  /\ UNCHANGED <<data, clock, sessionvars>>
  /\ UNCHANGED <<catalogvars, current_table_view, relation_cache>>

NextCrash ==
  \/ NextRepo
  \/ Repo_add_field_interrupted

SpecCrash == Init /\ [][NextCrash]_vars


\* ------------------------- MetaRepository with the column step on its own
\* the last two statements of add_field, run for a field row that is
\* already in the catalog: _ensure_data_table, then _ensure_column with the
\* column name and the DDL of that field
Repo_ensure_column ==
  /\ Step(MaxRepoSteps)
  /\ \E fid \in DOMAIN meta_fields :
       /\ data' = add_field_column(data, meta_fields[fid].table_id, fid,
                                   meta_fields[fid].ftype)
       /\ last' = Op("_ensure_column", fid, 0)
  /\ UNCHANGED <<meta_fields, clock, sessionvars>>
  /\ UNCHANGED <<catalogvars, current_table_view, relation_cache>>

NextColumn ==
  \/ NextCrash
  \/ Repo_ensure_column

SpecColumn == Init /\ [][NextColumn]_vars

\* ------------------------------------- MetaRepository: the ids of a table
\* history: the ids add_record and add_record_with_id have assigned so far
Assigned == IF last.op = "init" THEN {} ELSE last.n

Ids_add_record ==
  /\ Step(MaxIdSteps)
  /\ data[table_id].seq < MaxIds
  /\ LET res == add_record(data, table_id, EmptyMap, clock, clock)
     IN /\ data' = res.data
        /\ last' = Op("add_record", res.rid, Assigned \cup {res.rid})
  /\ UNCHANGED <<meta_fields, clock, sessionvars>>
  /\ UNCHANGED <<catalogvars, current_table_view, relation_cache>>

Ids_add_record_with_id ==
  /\ Step(MaxIdSteps)
  /\ \E rid \in 1..MaxIds :
       LET res == add_record_with_id(data, table_id, rid, EmptyMap, 0, 0, clock, clock)
       IN /\ data' = res.data
          /\ last' = Op("add_record_with_id", rid, Assigned \cup {rid})
  /\ UNCHANGED <<meta_fields, clock, sessionvars>>
  /\ UNCHANGED <<catalogvars, current_table_view, relation_cache>>

Ids_delete_record ==
  /\ Step(MaxIdSteps)
  /\ \E rid \in 1..MaxIds :
       /\ data' = delete_record(data, table_id, rid).data
       /\ last' = Op("delete_record", rid, Assigned)
  /\ UNCHANGED <<meta_fields, clock, sessionvars>>
  /\ UNCHANGED <<catalogvars, current_table_view, relation_cache>>

NextIds ==
  \/ Ids_add_record
  \/ Ids_add_record_with_id
  \/ Ids_delete_record

SpecIds == Init /\ [][NextIds]_vars

\* ----------------------------- MetaRepository: projects, tables, views
ProjectNameInputs == {" ", "P", "Q", "R"}
TableNameInputs == {" ", "T", "U", " U ", "V"}
ViewNameInputs == {" ", "Principal", "V"}

\* options a caller passes with ftype = relation
RelationOptionInputs ==
  {NoOptions} \cup {[target_table_id |-> n, display_field_id |-> 0] : n \in 0..(MaxTables + 1)}

\* lists a caller passes as options["options"] with ftype = select
SelectOptionInputs ==
  {<<>>, <<"Open">>, <<"Open", "Done">>, <<"Done", "Open">>,
   <<"Open", "Done", "Open">>, <<"Done", "Done">>}

\* the pieces of the dialog's text between line ends and commas
SelectTextInputs ==
  {<<>>, <<" ">>, <<"Open", " Done">>, <<"Open", "Done ", "Open">>,
   <<"Done", "", "Done">>, <<"Done", "Open", "Done", "Open">>}

OptionInputs(ftype) ==
  IF ftype = "relation" THEN RelationOptionInputs
  ELSE IF ftype = "select" THEN {[options |-> o] : o \in SelectOptionInputs}
  ELSE {NoOptions}

\* ordered_field_ids over the fields of every table
CatalogIdLists ==
  LET ids == 1..MaxCatalogFields
  IN {<<a>> : a \in ids} \cup {<<a, b>> : a \in ids, b \in ids}

noncatalogvars == <<clock, sessionvars, current_table_view, relation_cache>>

\* history of a call that takes a name: the name given, the exception it
\* raised ("" when it returned) and the id it returned
Call(name, res) == [name |-> name, err |-> res.err, id |-> res.id]

Repo_create_project ==
  /\ Step(MaxCatalogSteps)
  /\ meta_projects.seq < MaxProjects
  /\ \E name \in ProjectNameInputs, parent_id \in 0..MaxProjects :
       LET res == create_project(meta_projects, name, parent_id)
       IN IF res.ok
          THEN /\ meta_projects' = res.projects
               /\ last' = Op("create_project", 0, Call(name, res))
          ELSE /\ UNCHANGED meta_projects
               /\ last' = Op("create_project", 0, Call(name, res))
  /\ UNCHANGED <<meta_tables, meta_views, meta_fields, data, noncatalogvars>>

\* the keyword arguments of update_project that are not None
ProjectKwargInputs ==
  {EmptyMap, [parent_id |-> 1], [parent_id |-> 2]}
  \cup {[name |-> n] : n \in ProjectNameInputs}
  \cup {[name |-> n, parent_id |-> q] : n \in {"P", "Q"}, q \in 1..MaxProjects}

Repo_update_project ==
  /\ Step(MaxCatalogSteps)
  /\ \E project_id \in 1..MaxProjects, kwargs \in ProjectKwargInputs :
       LET res == update_project(meta_projects, project_id, kwargs)
       IN /\ meta_projects' = IF res.ok THEN res.projects ELSE meta_projects
          /\ last' = Op("update_project", project_id, [kwargs |-> kwargs, err |-> res.err])
  /\ UNCHANGED <<meta_tables, meta_views, meta_fields, data, noncatalogvars>>

Repo_delete_project ==
  /\ Step(MaxCatalogSteps)
  /\ \E project_id \in 1..MaxProjects :
       LET res == delete_project(meta_projects, meta_tables, project_id)
       IN /\ meta_projects' = res.projects
          /\ meta_tables' = res.tables
          /\ last' = Op("delete_project", project_id,
                        <<Cardinality(DOMAIN meta_projects.rows \ DOMAIN res.projects.rows),
                          Cardinality({t \in DOMAIN meta_tables.rows :
                                         res.tables.rows[t] # meta_tables.rows[t]})>>)
  /\ UNCHANGED <<meta_views, meta_fields, data, noncatalogvars>>

Repo_create_table(max) ==
  /\ Step(max)
  /\ meta_tables.seq < MaxTables
  /\ \E name \in TableNameInputs, project_id \in 0..MaxProjects :
       LET res == create_table(meta_tables, meta_projects, data, name, project_id)
       IN IF res.ok
          THEN /\ meta_tables' = res.tables
               /\ data' = res.data
               /\ last' = Op("create_table", 0, Call(name, res))
          ELSE /\ UNCHANGED <<meta_tables, data>>
               /\ last' = Op("create_table", 0, Call(name, res))
  /\ UNCHANGED <<meta_projects, meta_views, meta_fields, noncatalogvars>>

Repo_rename_table ==
  /\ Step(MaxCatalogSteps)
  /\ \E t \in 1..MaxTables, name \in TableNameInputs :
       LET res == rename_table(meta_tables, t, name)
       IN IF res.ok
          THEN /\ meta_tables' = res.tables
               /\ last' = Op("rename_table", t, Call(name, res))
          ELSE /\ UNCHANGED meta_tables
               /\ last' = Op("rename_table", t, Call(name, res))
  /\ UNCHANGED <<meta_projects, meta_views, meta_fields, data, noncatalogvars>>

Repo_create_view ==
  /\ Step(MaxCatalogSteps)
  /\ meta_views.seq < MaxViews
  /\ \E t \in 1..MaxTables, name \in ViewNameInputs :
       LET res == create_view(meta_views, meta_tables, t, name)
       IN IF res.ok
          THEN /\ meta_views' = res.views
               /\ last' = Op("create_view", t, Call(name, res))
          ELSE /\ UNCHANGED meta_views
               /\ last' = Op("create_view", t, Call(name, res))
  /\ UNCHANGED <<meta_projects, meta_tables, meta_fields, data, noncatalogvars>>

Repo_add_field_to ==
  /\ Step(MaxTableSteps)
  /\ Len(meta_fields) < MaxCatalogFields
  /\ \E t \in 1..MaxTables, ftype \in {"text", "relation"} :
       \E options \in OptionInputs(ftype) :
         LET res == add_field(meta_fields, meta_tables, data, t, "A", ftype, options)
         IN IF res.ok
            THEN /\ meta_fields' = res.fields
                 /\ data' = res.data
                 /\ last' = Op("add_field", res.id, options)
            ELSE /\ UNCHANGED <<meta_fields, data>>
                 /\ last' = Op("add_field_raised", 0, res.err)
  /\ UNCHANGED <<catalogvars, noncatalogvars>>

\* add_field(table_id, "A", "select", options=...)
Repo_add_select_field ==
  /\ Step(MaxTableSteps)
  /\ Len(meta_fields) < MaxCatalogFields
  /\ \E options \in OptionInputs("select") :
       LET res == add_field(meta_fields, meta_tables, data, table_id, "A", "select", options)
       IN IF res.ok
          THEN /\ meta_fields' = res.fields
               /\ data' = res.data
               /\ last' = Op("add_field", res.id, options)
          ELSE /\ UNCHANGED <<meta_fields, data>>
               /\ last' = Op("add_field_raised", 0, res.err)
  /\ UNCHANGED <<catalogvars, noncatalogvars>>

\* FieldsPanel.add_field on the open table, the dialog accepted with type
\* select and the text whose pieces are parts
FP_add_select_field ==
  /\ Step(MaxTableSteps)
  /\ Len(meta_fields) < MaxCatalogFields
  /\ \E parts \in SelectTextInputs :
       LET d == get_data("A", "select", parts)
           res == add_field(meta_fields, meta_tables, data, table_id, d.name, d.ftype, d.options)
       IN IF res.ok
          THEN /\ meta_fields' = res.fields
               /\ data' = res.data
               /\ fields' = reload(res.fields)
               /\ last' = Op("FieldsPanel.add_field", res.id, parts)
          ELSE /\ UNCHANGED <<meta_fields, data, fields>>
               /\ last' = Op("FieldsPanel.add_field", 0, parts)
  /\ UNCHANGED <<catalogvars, clock, undo_stack, undo_idx, in_undo_redo,
                 current_table_view, act_undo, act_redo, relation_cache>>

Repo_reorder_fields_of ==
  /\ Step(MaxTableSteps)
  /\ \E t \in 1..MaxTables, ids \in CatalogIdLists :
       /\ meta_fields' = reorder_fields(meta_fields, t, ids)
       /\ last' = Op("reorder_fields", t, ids)
  /\ UNCHANGED <<catalogvars, data, noncatalogvars>>

NextCatalog ==
  \/ Repo_create_project
  \/ Repo_delete_project
  \/ Repo_create_table(MaxCatalogSteps)
  \/ Repo_rename_table
  \/ Repo_create_view

SpecCatalog == Init /\ [][NextCatalog]_vars

\* ------------------------------------------ MetaRepository: delete_table
Repo_delete_table ==
  /\ Step(MaxTableSteps)
  /\ \E t \in 1..MaxTables :
       LET res == delete_table(meta_tables, meta_views, meta_fields, data, t)
       IN /\ meta_tables' = res.tables
          /\ meta_views' = res.views
          /\ meta_fields' = res.fields
          /\ data' = res.data
          /\ last' = Op("delete_table", t, 0)
  /\ UNCHANGED <<meta_projects, noncatalogvars>>

\* the ids meta_tables has handed out: the tables of the catalog and the
\* deleted ones
IssuedTables == 1..meta_tables.seq

Repo_get_record_by_id ==
  /\ Step(MaxTableSteps)
  /\ \E t \in IssuedTables, record_id \in 1..MaxRepoRecords :
       /\ data' = _ensure_data_table(data, t)
       /\ last' = Op("get_record_by_id", t, 0)
  /\ UNCHANGED <<meta_fields, catalogvars, noncatalogvars>>

Repo_list_relation_options ==
  /\ Step(MaxTableSteps)
  /\ \E target_table_id \in IssuedTables :
       /\ data' = list_relation_options(data, target_table_id, 2000).data
       /\ last' = Op("list_relation_options", target_table_id, 0)
  /\ UNCHANGED <<meta_fields, catalogvars, noncatalogvars>>

\* list_records(t)
Repo_list_records_of ==
  /\ Step(MaxTableSteps)
  /\ \E t \in IssuedTables :
       /\ data' = _ensure_data_table(data, t)
       /\ last' = Op("list_records", t,
                     list_records(meta_fields, data, t, "", limit_default, EmptyMap, 0, "DESC"))
  /\ UNCHANGED <<meta_fields, catalogvars, noncatalogvars>>

Repo_add_record_to ==
  /\ Step(MaxTableSteps)
  /\ \E t \in IssuedTables :
       /\ t \in DOMAIN data => data[t].seq < MaxRepoRecords
       /\ \E v \in InsertMaps(_ensure_data_table(data, t), t) :
            LET res == add_record(data, t, v, clock, clock)
            IN /\ data' = res.data
               /\ last' = Op("add_record", t, res.rid)
  /\ UNCHANGED <<meta_fields, catalogvars, noncatalogvars>>

Repo_update_record_of ==
  /\ Step(MaxTableSteps)
  /\ \E t \in IssuedTables, rid \in 1..MaxRepoRecords :
       \E v \in ValueMaps(_ensure_data_table(data, t), t) :
         /\ data' = update_record(data, t, rid, v, clock).data
         /\ last' = Op("update_record", t, rid)
  /\ UNCHANGED <<meta_fields, catalogvars, noncatalogvars>>

Repo_delete_record_of ==
  /\ Step(MaxTableSteps)
  /\ \E t \in IssuedTables, rid \in 1..MaxRepoRecords :
       /\ data' = delete_record(data, t, rid).data
       /\ last' = Op("delete_record", t, rid)
  /\ UNCHANGED <<meta_fields, catalogvars, noncatalogvars>>

\* tables created and deleted, and the calls that take a table id
NextDrop ==
  \/ Repo_create_table(MaxTableSteps)
  \/ Repo_add_field_to
  \/ Repo_delete_table
  \/ Repo_get_record_by_id
  \/ Repo_list_relation_options
  \/ Repo_list_records_of
  \/ Repo_add_record_to
  \/ Repo_update_record_of
  \/ Repo_delete_record_of

SpecDrop == Init /\ [][NextDrop]_vars

\* the tree of projects
NextProjects ==
  \/ Repo_create_project
  \/ Repo_update_project
  \/ Repo_delete_project

SpecProjects == Init /\ [][NextProjects]_vars

\* the fields of several tables
NextTables ==
  \/ Repo_create_table(MaxTableSteps)
  \/ Repo_add_field_to
  \/ Repo_reorder_fields_of

SpecTables == Init /\ [][NextTables]_vars

\* ------------------------------------------- MainWindow, TableView: views
\* TableView.load_views: a table without views gets the view "Principal"
load_views(mv, mt, t) ==
  IF ViewsOf(mv, t) = {} THEN create_view(mv, mt, t, "Principal").views ELSE mv

\* TableView(repo, t): a new session on table t; __init__ ends with reload()
\* and load_views()
TableView_init(mv, mt, t) ==
  /\ current_table_view' = t
  /\ relation_cache' = EmptyMap
  /\ undo_stack' = <<>>
  /\ undo_idx' = 0
  /\ in_undo_redo' = FALSE
  /\ _update_undo_actions(<<>>, 0)
  /\ fields' = list_fields(meta_fields, t, TRUE)
  /\ meta_views' = load_views(mv, mt, t)

\* MainWindow.create_table, the dialog accepted with name, no project
\* selected; reload_tree selects the new table, on_tree_selection_changed
\* opens it
MW_create_table ==
  /\ Step(MaxViewSteps)
  /\ meta_tables.seq < MaxTables
  /\ \E name \in TableNameInputs :
       LET res == create_table(meta_tables, meta_projects, data, strip(name), 0)
       IN IF strip(name) # "" /\ res.ok
          THEN /\ meta_tables' = res.tables
               /\ data' = res.data
               /\ TableView_init(meta_views, res.tables, res.id)
               /\ last' = Op("MainWindow.create_table", res.id, name)
          ELSE /\ UNCHANGED <<meta_tables, data, meta_views, sessionvars, current_table_view, relation_cache>>
               /\ last' = Op("MainWindow.create_table", 0, name)
  /\ UNCHANGED <<meta_projects, meta_fields, clock>>

\* MainWindow.on_tree_selection_changed, the user having selected table t
MW_select_table ==
  /\ Step(MaxViewSteps)
  /\ \E t \in DOMAIN meta_tables.rows :
       /\ TableView_init(meta_views, meta_tables, t)
       /\ last' = Op("on_tree_selection_changed", t, 0)
  /\ UNCHANGED <<meta_projects, meta_tables, meta_fields, data, clock>>

\* TableView.save_view_as, the dialog accepted with name
TV_save_view_as ==
  /\ Step(MaxViewSteps)
  /\ current_table_view # 0
  /\ Cardinality(ViewsOf(meta_views, current_table_view)) < MaxTableViews
  /\ \E name \in ViewNameInputs :
       LET res == create_view(meta_views, meta_tables, current_table_view, name)
       IN /\ meta_views' = IF res.ok
                           THEN load_views(res.views, meta_tables, current_table_view)
                           ELSE meta_views
          /\ last' = Op("save_view_as", current_table_view, name)
  /\ UNCHANGED <<meta_projects, meta_tables, meta_fields, data, noncatalogvars>>

\* delete_current_view without the test of cmb_views.count()
TV_delete_current_view_unguarded ==
  /\ Step(MaxViewSteps)
  /\ current_table_view # 0
  /\ \E current_view_id \in ViewsOf(meta_views, current_table_view) :
       /\ meta_views' = delete_view(meta_views, current_view_id)
       /\ last' = Op("delete_current_view", current_view_id, "deleted")
  /\ UNCHANGED <<meta_projects, meta_tables, meta_fields, data, noncatalogvars>>

\* TableView.delete_current_view on the view selected in cmb_views, the
\* question answered with Yes
TV_delete_current_view ==
  /\ Step(MaxViewSteps)
  /\ current_table_view # 0
  /\ \E current_view_id \in ViewsOf(meta_views, current_table_view) :
       IF Cardinality(ViewsOf(meta_views, current_table_view)) <= 1
       THEN /\ UNCHANGED meta_views
            /\ last' = Op("delete_current_view", current_view_id, "refused")
       ELSE /\ meta_views' = load_views(delete_view(meta_views, current_view_id),
                                        meta_tables, current_table_view)
            /\ last' = Op("delete_current_view", current_view_id, "deleted")
  /\ UNCHANGED <<meta_projects, meta_tables, meta_fields, data, noncatalogvars>>

NextViews ==
  \/ MW_create_table
  \/ MW_select_table
  \/ TV_save_view_as
  \/ TV_delete_current_view

SpecViews == Init /\ [][NextViews]_vars

NextSelect ==
  \/ Repo_add_select_field
  \/ FP_add_select_field

SpecSelect == Init /\ [][NextSelect]_vars

\* ------------------------------------------- TableView: relation labels
\* dict(r) of a row r of list_fields, as reload() puts it in self.fields: the
\* columns of meta_fields, the options under the key options_json
FieldDict(mf, f) ==
  [id |-> f, table_id |-> mf[f].table_id, ftype |-> mf[f].ftype,
   options_json |-> mf[f].options]

\* the first text, select or path field of list_fields(rel_table_id), 0
\* (None) without one
LabelField(mf, rel_fields) ==
  LET texts == {i \in DOMAIN rel_fields :
                  mf[rel_fields[i]].ftype \in {"text", "select", "path"}}
  IN IF texts = {} THEN 0
     ELSE rel_fields[CHOOSE i \in texts : \A o \in texts : i <= o]

\* the label of a row: str() of its value in the label field, str(id) when
\* there is no such field or the value is empty
RowLabel(tab, label_fid, rid) ==
  IF /\ label_fid # 0
     /\ label_fid \in DOMAIN tab.rows[rid].vals
     /\ tab.rows[rid].vals[label_fid] # ""
  THEN tab.rows[rid].vals[label_fid]
  ELSE ToString(rid)

RelationOptions(tab, label_fid, rows) ==
  [i \in DOMAIN rows |-> <<rows[i], RowLabel(tab, label_fid, rows[i])>>]

\* get_relation_options past the test of self._relation_cache: the records
\* of the table, ids ascending, each with its label; the list is kept
LoadRelationOptions(mf, d, cache, rel_table_id) ==
  LET opts == RelationOptions(_ensure_data_table(d, rel_table_id)[rel_table_id],
                              LabelField(mf, list_fields(mf, rel_table_id, TRUE)),
                              list_records(mf, d, rel_table_id, "", 5000, EmptyMap, 0, "ASC"))
  IN [options |-> opts, cache |-> (rel_table_id :> opts) @@ cache,
      data |-> _ensure_data_table(d, rel_table_id)]

\* get_relation_options without the test of self._relation_cache
get_relation_options_uncached(mf, d, cache, rel_table_id) ==
  LoadRelationOptions(mf, d, cache, rel_table_id)

\* TableView.get_relation_options: the list kept for rel_table_id, or the
\* list loaded now
get_relation_options(mf, d, cache, rel_table_id) ==
  IF rel_table_id \in DOMAIN cache
  THEN [options |-> cache[rel_table_id], cache |-> cache, data |-> d]
  ELSE LoadRelationOptions(mf, d, cache, rel_table_id)

\* the loop of _relation_label over the options: the label of the first
\* option with id rid, str(rid) when there is none
LabelAmong(r, rid) ==
  LET hits == {i \in DOMAIN r.options : r.options[i][1] = rid}
  IN [label |-> IF hits = {} THEN ToString(rid)
                ELSE r.options[CHOOSE i \in hits : \A o \in hits : i <= o][2],
      cache |-> r.cache, data |-> r.data]

\* TableView._relation_label(field, rid), rid an int (0 for None)
_relation_label(mf, d, cache, field, rid) ==
  LET options == IF "options" \in DOMAIN field THEN field.options ELSE EmptyMap
      rel_table_id == IF "table_id" \in DOMAIN options THEN options.table_id ELSE 0
  IN IF rid = 0 THEN [label |-> "", cache |-> cache, data |-> d]
     ELSE IF rel_table_id = 0 THEN [label |-> ToString(rid), cache |-> cache, data |-> d]
     ELSE LabelAmong(get_relation_options(mf, d, cache, rel_table_id), rid)

\* a catalog built by create_table("U") and add_field(1, "R", "relation",
\* {target_table_id: 2, display_field_id: 0}) on the initial database, then,
\* when with_text, add_field(2, "S", "text")
RelationTables == create_table([seq |-> 1, rows |-> (table_id :> [name |-> "T", project_id |-> 0])],
                               [seq |-> 0, rows |-> EmptyMap],
                               (table_id :> [cols |-> <<>>, seq |-> 0, rows |-> EmptyMap]),
                               "U", 0)

RelationCatalog(with_text) ==
  LET f1 == add_field(<<>>, RelationTables.tables, RelationTables.data, table_id, "R",
                      "relation", [target_table_id |-> RelationTables.id, display_field_id |-> 0])
  IN IF with_text
     THEN add_field(f1.fields, RelationTables.tables, f1.data, RelationTables.id, "S",
                    "text", NoOptions)
     ELSE f1

InitRelation ==
  /\ \E with_text \in BOOLEAN :
       /\ meta_fields = RelationCatalog(with_text).fields
       /\ data = RelationCatalog(with_text).data
       /\ fields = list_fields(RelationCatalog(with_text).fields, table_id, TRUE)
  /\ clock = 1
  /\ undo_stack = <<>>
  /\ undo_idx = 0
  /\ in_undo_redo = FALSE
  /\ act_undo = FALSE
  /\ act_redo = FALSE
  /\ last = Op("init", 0, 0)
  /\ steps = 0
  /\ meta_projects = [seq |-> 0, rows |-> EmptyMap]
  /\ meta_tables = RelationTables.tables
  /\ meta_views = load_views([seq |-> 1,
                              rows |-> (1 :> [table_id |-> table_id, name |-> "Principal"])],
                             RelationTables.tables, RelationTables.id)
  /\ current_table_view = table_id
  /\ relation_cache = EmptyMap

\* the field argument of _relation_label: the dicts of self.fields for the
\* relation fields, and dicts that carry the key options with a table_id
RelationFieldInputs ==
  LET rel == {fields[i] : i \in DOMAIN fields} \cap
               {f \in DOMAIN meta_fields : meta_fields[f].ftype = "relation"}
  IN {FieldDict(meta_fields, f) : f \in rel}
     \cup {[id |-> f, ftype |-> "relation",
            options |-> [table_id |-> meta_fields[f].options.target_table_id]] : f \in rel}

TV_relation_label ==
  /\ Step(MaxTableSteps)
  /\ \E field \in RelationFieldInputs, rid \in 0..(MaxRepoRecords + 1) :
       LET res == _relation_label(meta_fields, data, relation_cache, field, rid)
       IN /\ relation_cache' = res.cache
          /\ data' = res.data
          /\ last' = Op("_relation_label", rid, [field |-> field, label |-> res.label])
  /\ UNCHANGED <<meta_fields, catalogvars, clock, sessionvars, current_table_view>>

TV_get_relation_options ==
  /\ Step(MaxTableSteps)
  /\ \E rel_table_id \in DOMAIN meta_tables.rows :
       LET res == get_relation_options(meta_fields, data, relation_cache, rel_table_id)
       IN /\ relation_cache' = res.cache
          /\ data' = res.data
          /\ last' = Op("get_relation_options", rel_table_id, res.options)
  /\ UNCHANGED <<meta_fields, catalogvars, clock, sessionvars, current_table_view>>

\* a table session, and the records of the tables written meanwhile
NextRelation ==
  \/ TV_relation_label
  \/ TV_get_relation_options
  \/ Repo_add_record_to
  \/ Repo_update_record_of
  \/ Repo_delete_record_of

SpecRelation == InitRelation /\ [][NextRelation]_vars

\* ------------------------------------------- MetaRepository: list_records
\* a catalog built by the calls create_table("U"), add_field(1, "N", number),
\* add_field(1, "S", text), add_field(1, "D", number), deactivate_field(3),
\* add_field(2, "O", number) on the initial database
QueryTables == create_table([seq |-> 1, rows |-> (table_id :> [name |-> "T", project_id |-> 0])],
                            [seq |-> 0, rows |-> EmptyMap],
                            (table_id :> [cols |-> <<>>, seq |-> 0, rows |-> EmptyMap]),
                            "U", 0)

QueryCatalog ==
  LET f1 == add_field(<<>>, QueryTables.tables, QueryTables.data, table_id, "N", "number", NoOptions)
      f2 == add_field(f1.fields, QueryTables.tables, f1.data, table_id, "S", "text", NoOptions)
      f3 == add_field(f2.fields, QueryTables.tables, f2.data, table_id, "D", "number", NoOptions)
      f4 == add_field(deactivate_field(f3.fields, 3), QueryTables.tables, f3.data,
                      QueryTables.id, "O", "number", NoOptions)
  IN f4

\* values_by_field_id of the records a query run starts with
QueryValueInputs ==
  {(1 :> 5) @@ (2 :> ""), (1 :> 10) @@ (2 :> "a"), (1 :> 15) @@ (2 :> "ab"),
   (1 :> 20) @@ (2 :> "a"), (1 :> 25) @@ (2 :> "b")}

QueryRecordInputs ==
  UNION {[1..n -> QueryValueInputs] : n \in 0..MaxQueryRecords}
  \cup {<<(1 :> 5) @@ (2 :> ""), (1 :> 10) @@ (2 :> "a"), (1 :> 15) @@ (2 :> "ab"),
          (1 :> 20) @@ (2 :> "a"), (1 :> 25) @@ (2 :> "b")>>}

RECURSIVE AddRecords(_, _)
AddRecords(d, vs) ==
  IF vs = <<>> THEN d
  ELSE AddRecords(add_record(d, table_id, Head(vs), 1, 1).data, Tail(vs))

InitQuery ==
  /\ meta_fields = QueryCatalog.fields
  /\ \E vs \in QueryRecordInputs : data = AddRecords(QueryCatalog.data, vs)
  /\ clock = 1
  /\ undo_stack = <<>>
  /\ undo_idx = 0
  /\ in_undo_redo = FALSE
  /\ act_undo = FALSE
  /\ act_redo = FALSE
  /\ fields = list_fields(QueryCatalog.fields, table_id, TRUE)
  /\ last = Op("init", 0, 0)
  /\ steps = 0
  /\ meta_projects = [seq |-> 0, rows |-> EmptyMap]
  /\ meta_tables = QueryTables.tables
  /\ meta_views = load_views([seq |-> 1,
                              rows |-> (1 :> [table_id |-> table_id, name |-> "Principal"])],
                             QueryTables.tables, QueryTables.id)
  /\ current_table_view = table_id
  /\ relation_cache = EmptyMap

\* keys of filters: "1" the number field, "2" the text field, "3" the
\* deactivated field, "4" the field of the other table, "9" no field
KeyInputs == {"1", "2", "3", "4", "9", "x"}

FvalInputs ==
  {[min |-> 10], [max |-> 20], [min |-> 10, max |-> 20], [equals |-> "a"], [contains |-> "b"]}

FilterInputs ==
  UNION {[K -> FvalInputs] : K \in {S \in SUBSET KeyInputs : Cardinality(S) <= MaxFilterKeys}}

\* the arguments and the result of a call of list_records
Query(query, filters, sort_field_id, sort_dir, rows) ==
  [query |-> query, filters |-> filters, sort_field_id |-> sort_field_id,
   sort_dir |-> sort_dir, rows |-> rows]

\* list_records(table_id, filters=...)
Repo_list_records ==
  /\ last.op = "init"
  /\ \E filters \in FilterInputs :
       /\ data' = _ensure_data_table(data, table_id)
       /\ last' = Op("list_records", table_id,
                     Query("", filters, 0, "DESC",
                           list_records(meta_fields, data, table_id, "", limit_default,
                                        filters, 0, "DESC")))
  /\ UNCHANGED <<meta_fields, steps, catalogvars, noncatalogvars>>

\* sort_dir arguments; "" for None
SortDirInputs == {"ASC", "DESC", "asc", "x", ""}

\* list_records(table_id, query=..., limit=..., sort_field_id=..., sort_dir=...)
Repo_list_records_sorted ==
  /\ last.op = "init"
  /\ \E query \in {"", " ", "a"}, limit \in {1, limit_default},
        sort_field_id \in 0..4, sort_dir \in SortDirInputs :
       /\ data' = _ensure_data_table(data, table_id)
       /\ last' = Op("list_records_sorted", table_id,
                     Query(query, EmptyMap, sort_field_id, sort_dir,
                           list_records(meta_fields, data, table_id, query, limit,
                                        EmptyMap, sort_field_id, sort_dir)))
  /\ UNCHANGED <<meta_fields, steps, catalogvars, noncatalogvars>>

\* a catalog built by create_table("U"), add_field(1, "S", text),
\* add_field(1, "N", number), add_field(1, "B", bool), add_field(1, "R",
\* relation to table 2), add_field(1, "D", text), deactivate_field(5)
SearchCatalog ==
  LET mt == QueryTables.tables
      f1 == add_field(<<>>, mt, QueryTables.data, table_id, "S", "text", NoOptions)
      f2 == add_field(f1.fields, mt, f1.data, table_id, "N", "number", NoOptions)
      f3 == add_field(f2.fields, mt, f2.data, table_id, "B", "bool", NoOptions)
      f4 == add_field(f3.fields, mt, f3.data, table_id, "R", "relation",
                      [target_table_id |-> QueryTables.id, display_field_id |-> 0])
      f5 == add_field(f4.fields, mt, f4.data, table_id, "D", "text", NoOptions)
  IN [fields |-> deactivate_field(f5.fields, 5), data |-> f5.data]

\* values_by_field_id of the records a search run starts with
SearchValueInputs ==
  {(1 :> "ab") @@ (2 :> 7) @@ (3 :> 1) @@ (4 :> 2) @@ (5 :> "b"),
   (1 :> "") @@ (2 :> 0) @@ (3 :> 0) @@ (4 :> 0) @@ (5 :> "a"),
   (1 :> "b") @@ (2 :> 1) @@ (3 :> 0) @@ (4 :> 7) @@ (5 :> ""),
   (1 :> "7") @@ (2 :> 2) @@ (3 :> 1) @@ (4 :> 1) @@ (5 :> "")}

InitSearch ==
  /\ meta_fields = SearchCatalog.fields
  /\ \E vs \in UNION {[1..n -> SearchValueInputs] : n \in 0..MaxSearchRecords} :
       data = AddRecords(SearchCatalog.data, vs)
  /\ clock = 1
  /\ undo_stack = <<>>
  /\ undo_idx = 0
  /\ in_undo_redo = FALSE
  /\ act_undo = FALSE
  /\ act_redo = FALSE
  /\ fields = list_fields(SearchCatalog.fields, table_id, TRUE)
  /\ last = Op("init", 0, 0)
  /\ steps = 0
  /\ meta_projects = [seq |-> 0, rows |-> EmptyMap]
  /\ meta_tables = QueryTables.tables
  /\ meta_views = load_views([seq |-> 1,
                              rows |-> (1 :> [table_id |-> table_id, name |-> "Principal"])],
                             QueryTables.tables, QueryTables.id)
  /\ current_table_view = table_id
  /\ relation_cache = EmptyMap

\* query arguments that do not strip to ""
SearchInputs ==
  {"a", "b", "x", "0", "1", "2", "7", "7,0", "si", "SI", "no", "%", "_"}

\* list_records(table_id, query=...)
Repo_search ==
  /\ last.op = "init"
  /\ \E query \in SearchInputs :
       /\ data' = _ensure_data_table(data, table_id)
       /\ last' = Op("search", table_id,
                     Query(query, EmptyMap, 0, "DESC",
                           list_records(meta_fields, data, table_id, query, limit_default,
                                        EmptyMap, 0, "DESC")))
  /\ UNCHANGED <<meta_fields, steps, catalogvars, noncatalogvars>>

NextSearch == Repo_search

SpecSearch == InitSearch /\ [][NextSearch]_vars

NextQuery ==
  \/ Repo_list_records
  \/ Repo_list_records_sorted

SpecQuery == InitQuery /\ [][NextQuery]_vars

\* ------------------------------------------------------------ properties
RecordOps == {"add_record", "edit_record", "delete_record"}

LabelOf(op) ==
  CASE op = "add_record" -> "add" [] op = "edit_record" -> "edit" [] op = "delete_record" -> "del"

\* C1: a handler that records a command while no undo/redo is in progress
\* drops every entry at or after the cursor, appends the new command, and
\* leaves the cursor one further, equal to the new length of the stack
C1_RecordDiscardsRedoBranch ==
  [][last'.op \in RecordOps =>
       /\ undo_idx' = undo_idx + 1
       /\ Len(undo_stack') = undo_idx + 1
       /\ SubSeq(undo_stack', 1, undo_idx) = SubSeq(undo_stack, 1, undo_idx)
       /\ undo_stack'[undo_idx + 1].label = LabelOf(last'.op)
       /\ undo_stack'[undo_idx + 1].rid = last'.rid
       /\ undo_idx' = Len(undo_stack')]_vars

\* a command was recorded with at least one undone entry above the cursor
C1_Witness ==
  /\ last.op \in RecordOps
  /\ last.n >= 1
  /\ undo_idx = Len(undo_stack)

\* the rows of the open table
Rows == data[table_id].rows

\* every row but rid is the same before and after the step
OtherRowsUnchanged(rid) ==
  \A r \in (DOMAIN Rows \cup DOMAIN Rows') \ {rid} :
    /\ r \in DOMAIN Rows
    /\ r \in DOMAIN Rows'
    /\ Rows'[r] = Rows[r]

\* row holds the given value in each of the given columns
AgreesOn(row, values) ==
  \A c \in DOMAIN values : c \in DOMAIN row.vals /\ row.vals[c] = values[c]

\* what running the undo action of cmd, and of no other entry, does to the table
UndoEffect(cmd) ==
  /\ OtherRowsUnchanged(cmd.rid)
  /\ CASE cmd.label = "add" -> cmd.rid \notin DOMAIN Rows'
       [] cmd.label = "edit" ->
            /\ cmd.rid \in DOMAIN Rows'
            /\ AgreesOn(Rows'[cmd.rid], cmd.old_vals)
       [] cmd.label = "del" ->
            /\ cmd.rid \in DOMAIN Rows'
            /\ AgreesOn(Rows'[cmd.rid], cmd.old_vals)

\* what running the redo action of cmd, and of no other entry, does to the table
RedoEffect(cmd) ==
  /\ OtherRowsUnchanged(cmd.rid)
  /\ CASE cmd.label = "add" ->
            /\ cmd.rid \in DOMAIN Rows'
            /\ AgreesOn(Rows'[cmd.rid], cmd.data)
       [] cmd.label = "edit" ->
            /\ cmd.rid \in DOMAIN Rows'
            /\ AgreesOn(Rows'[cmd.rid], cmd.data)
       [] cmd.label = "del" -> cmd.rid \notin DOMAIN Rows'

UndoOps == {"undo", "undo_noop", "undo_error"}
RedoOps == {"redo", "redo_noop", "redo_error"}

\* C2: undo() with the cursor at 0 changes neither the stack, the cursor nor
\* the stored data; with the cursor above 0 it moves the cursor down by one,
\* keeps every entry of the stack, and has the effect of the undo action of
\* exactly the entry at the new cursor index
C2_UndoStepsBackOneEntry ==
  [][last'.op \in UndoOps =>
       IF undo_idx = 0
       THEN /\ last'.op = "undo_noop"
            /\ UNCHANGED <<undo_stack, undo_idx, data, meta_fields>>
       ELSE /\ last'.op = "undo"
            /\ undo_idx' = undo_idx - 1
            /\ undo_stack' = undo_stack
            /\ UndoEffect(undo_stack[undo_idx' + 1])]_vars

\* the newer of two recorded commands was undone, the older one is still done
C2_Witness ==
  /\ last.op = "undo"
  /\ Len(undo_stack) = 2
  /\ undo_idx = 1

\* C3: redo() with the cursor at the length of the stack changes neither the
\* stack, the cursor nor the stored data; otherwise it has the effect of the
\* redo action of exactly the entry at the cursor index, moves the cursor up
\* by one and keeps every entry of the stack
C3_RedoStepsForwardOneEntry ==
  [][last'.op \in RedoOps =>
       IF undo_idx = Len(undo_stack)
       THEN /\ last'.op = "redo_noop"
            /\ UNCHANGED <<undo_stack, undo_idx, data, meta_fields>>
       ELSE /\ last'.op = "redo"
            /\ undo_idx' = undo_idx + 1
            /\ undo_stack' = undo_stack
            /\ RedoEffect(undo_stack[undo_idx + 1])]_vars

\* the older of two undone commands was redone, the newer one is still undone
C3_Witness ==
  /\ last.op = "redo"
  /\ Len(undo_stack) = 2
  /\ undo_idx = 1

\* C4: a record call made from inside an undo or redo action changes neither
\* the entries nor the cursor (the cursor moves only by the undo or redo
\* itself); the in-progress flag is down whenever undo/redo is not running,
\* so a handler that records right after an undo or redo is never suppressed
C4_NoRecordingInsideUndoRedo ==
  /\ [](in_undo_redo = FALSE)
  /\ [][/\ (last'.op = "undo" /\ last'.n = 1) =>
             (undo_stack' = undo_stack /\ undo_idx' = undo_idx - 1)
        /\ (last'.op = "redo" /\ last'.n = 1) =>
             (undo_stack' = undo_stack /\ undo_idx' = undo_idx + 1)
        /\ (last.op \in {"undo", "redo"} /\ last'.op \in RecordOps) =>
             /\ undo_idx' = undo_idx + 1
             /\ Len(undo_stack') = undo_idx'
             /\ undo_stack'[undo_idx'].label = LabelOf(last'.op)]_vars

\* an undo or redo whose action called the record operation has returned
C4_Witness ==
  /\ last.op \in {"undo", "redo"}
  /\ last.n = 1
  /\ Len(undo_stack) >= 1

\* row is, column by column and in both timestamps, the row was
SameRowAs(row, was) ==
  /\ row.created_at = was.created_at
  /\ row.updated_at = was.updated_at
  /\ AgreesOn(row, was.vals)

\* C5: undoing an add leaves no row with the added id and one row fewer;
\* redoing it restores a row with the same id whose field values and
\* timestamps are those of the row originally added
C5_AddRoundTrip ==
  [][/\ (last'.op = "undo" /\ undo_stack[undo_idx].label = "add") =>
          /\ undo_stack[undo_idx].rid \in DOMAIN Rows
          /\ DOMAIN Rows' = DOMAIN Rows \ {undo_stack[undo_idx].rid}
     /\ (last'.op = "redo" /\ undo_stack[undo_idx + 1].label = "add") =>
          /\ undo_stack[undo_idx + 1].rid \in DOMAIN Rows'
          /\ SameRowAs(Rows'[undo_stack[undo_idx + 1].rid],
                       undo_stack[undo_idx + 1].was)]_vars

\* C6: undoing a delete restores a row with the same id and exactly the
\* field values, created_at and updated_at it had immediately before the
\* delete; redoing the delete removes it again
C6_DeleteRoundTrip ==
  [][/\ (last'.op = "undo" /\ undo_stack[undo_idx].label = "del") =>
          /\ undo_stack[undo_idx].rid \in DOMAIN Rows'
          /\ SameRowAs(Rows'[undo_stack[undo_idx].rid], undo_stack[undo_idx].was)
     /\ (last'.op = "redo" /\ undo_stack[undo_idx + 1].label = "del") =>
          undo_stack[undo_idx + 1].rid \notin DOMAIN Rows']_vars

\* C7: the row restored by undoing a delete holds, in every physical column
\* of the table, the columns of deactivated fields included, the value the
\* row held before the delete
C7_UndoDeleteRestoresEveryColumn ==
  [][(last'.op = "undo" /\ undo_stack[undo_idx].label = "del") =>
       \A c \in DOMAIN undo_stack[undo_idx].was.vals :
         /\ undo_stack[undo_idx].rid \in DOMAIN Rows'
         /\ c \in DOMAIN Rows'[undo_stack[undo_idx].rid].vals
         /\ Rows'[undo_stack[undo_idx].rid].vals[c] = undo_stack[undo_idx].was.vals[c]]_vars

\* the fields of the catalog that are active
ActiveFields == {f \in DOMAIN meta_fields : meta_fields[f].active = 1}

\* the number of columns of the data table of field f that are named f
ColumnCount(f) ==
  LET cols == data[meta_fields[f].table_id].cols
  IN Cardinality({i \in DOMAIN cols : cols[i].name = f})

\* C8: every active field has exactly one column in the data table of its
\* table, and no step removes or alters a column of a data table
C8_ActiveFieldHasOneColumn ==
  /\ [](\A f \in ActiveFields :
          /\ meta_fields[f].table_id \in DOMAIN data
          /\ ColumnCount(f) = 1)
  /\ [][\A t \in DOMAIN data :
          /\ t \in DOMAIN data'
          /\ Len(data'[t].cols) >= Len(data[t].cols)
          /\ SubSeq(data'[t].cols, 1, Len(data[t].cols)) = data[t].cols]_vars

\* two fields, one active and one deactivated, and a stored row
C8_Witness ==
  /\ \E f \in ActiveFields : ColumnCount(f) = 1
  /\ \E g \in DOMAIN meta_fields : meta_fields[g].active = 0 /\ ColumnCount(g) = 1
  /\ DOMAIN Rows # {}

\* C9: when add_field comes back (also as the retry of a call that was cut
\* short after the field row had been written), every active field of the
\* table has its column
C9_RetryHealsMissingColumn ==
  [][last'.op = "add_field" =>
       \A f \in FieldsOf(meta_fields', table_id, TRUE) :
         f \in _table_columns(data', table_id)]_vars

\* C10: deactivate_field on an existing field makes it inactive and changes
\* no stored data; an inactive field is never listed by
\* list_fields(active_only) again, its column stays, and get_record_by_id
\* returns a value for that column for every row
C10_DeactivatedFieldKeepsItsData ==
  /\ [](\A f \in DOMAIN meta_fields : meta_fields[f].active = 0 =>
          LET t == meta_fields[f].table_id
              listed == list_fields(meta_fields, t, TRUE)
          IN /\ \A i \in DOMAIN listed : listed[i] # f
             /\ f \in _table_columns(data, t)
             /\ \A r \in DOMAIN data[t].rows :
                  f \in DOMAIN get_record_by_id(data, t, r).vals)
  /\ [][/\ \A f \in DOMAIN meta_fields : meta_fields[f].active = 0 =>
             (f \in DOMAIN meta_fields' /\ meta_fields'[f].active = 0)
        /\ (last'.op = "deactivate_field" /\ last'.rid \in DOMAIN meta_fields) =>
             /\ meta_fields'[last'.rid].active = 0
             /\ data' = data]_vars

\* a field whose column holds a non-default value has just been deactivated
C10_Witness ==
  /\ last.op = "deactivate_field"
  /\ last.rid \in DOMAIN meta_fields
  /\ meta_fields[last.rid].active = 0
  /\ \E r \in DOMAIN Rows :
       /\ last.rid \in DOMAIN Rows[r].vals
       /\ Rows[r].vals[last.rid] # ColumnDefault(data, table_id, last.rid)

\* every ordering of the ids in S: the lists that hold each id exactly once
OrdersOf(S) ==
  {o \in [1..Cardinality(S) -> S] : \A i, j \in DOMAIN o : o[i] = o[j] => i = j}

\* C11: for every order that is a permutation of the active field ids of the
\* table, list_fields after reorder_fields(table, order) is exactly order
C11_ReorderThenListGivesOrder ==
  \A order \in OrdersOf(FieldsOf(meta_fields, table_id, TRUE)) :
    list_fields(reorder_fields(meta_fields, table_id, order), table_id, TRUE) = order

\* a reorder has put the younger of two active fields first
C11_Witness ==
  /\ last.op = "reorder_fields"
  /\ list_fields(meta_fields, table_id, TRUE) = <<2, 1>>

\* C13: a run of the column step for a field leaves exactly one column for
\* that field and keeps every row with every value and timestamp it had; run
\* for a field whose column is already there it changes nothing at all
C13_EnsureColumnIdempotent ==
  [][last'.op = "_ensure_column" =>
       LET fid == last'.rid
           t == meta_fields[fid].table_id
       IN /\ Cardinality({i \in DOMAIN data'[t].cols : data'[t].cols[i].name = fid}) = 1
          /\ DOMAIN data'[t].rows = DOMAIN data[t].rows
          /\ \A r \in DOMAIN data[t].rows :
               /\ data'[t].rows[r].created_at = data[t].rows[r].created_at
               /\ data'[t].rows[r].updated_at = data[t].rows[r].updated_at
               /\ AgreesOn(data'[t].rows[r], data[t].rows[r].vals)
          /\ fid \in _table_columns(data, t) => data' = data
          /\ add_field_column(data', t, fid, meta_fields[fid].ftype) = data']_vars

\* the column step has run for a field whose column holds a stored value
C13_Witness ==
  /\ last.op = "_ensure_column"
  /\ \E r \in DOMAIN Rows :
       /\ last.rid \in DOMAIN Rows[r].vals
       /\ Rows[r].vals[last.rid] # ColumnDefault(data, table_id, last.rid)

\* C12: reorder_fields(t, ids) changes nothing but positions, and only of
\* fields of table t: a field of another table, listed in ids or not, keeps
\* its row as it was
C12_ReorderStaysInsideItsTable ==
  [][last'.op = "reorder_fields" =>
       /\ DOMAIN meta_fields' = DOMAIN meta_fields
       /\ \A f \in DOMAIN meta_fields :
            /\ meta_fields'[f] = [meta_fields[f] EXCEPT !.position = meta_fields'[f].position]
            /\ meta_fields[f].table_id # last'.rid => meta_fields'[f] = meta_fields[f]]_vars

\* reorder_fields was called with the id of a field of another table
C12_Witness ==
  /\ last.op = "reorder_fields"
  /\ \E i \in DOMAIN last.n :
       /\ last.n[i] \in DOMAIN meta_fields
       /\ meta_fields[last.n[i]].table_id # last.rid
       /\ last.rid \in DOMAIN meta_tables.rows

\* q is project p or lies below it in the tree of projects
RECURSIVE IsUnder(_, _, _)
IsUnder(mp, q, p) ==
  \/ q = p
  \/ /\ mp.rows[q].parent_id \in DOMAIN mp.rows \ {q}
     /\ IsUnder(mp, mp.rows[q].parent_id, p)

\* C14: delete_project(p) deletes exactly p and its descendants, sets
\* project_id to null on exactly the tables owned by one of them, and leaves
\* every other project and table row, every table, field, view and record
\* as it was
C14_DeleteProjectDetachesTables ==
  [][last'.op = "delete_project" =>
       LET gone == {q \in DOMAIN meta_projects.rows :
                      IsUnder(meta_projects, q, last'.rid)}
       IN /\ DOMAIN meta_projects'.rows = DOMAIN meta_projects.rows \ gone
          /\ \A q \in DOMAIN meta_projects'.rows :
               meta_projects'.rows[q] = meta_projects.rows[q]
          /\ DOMAIN meta_tables'.rows = DOMAIN meta_tables.rows
          /\ \A t \in DOMAIN meta_tables.rows :
               meta_tables'.rows[t] =
                 IF meta_tables.rows[t].project_id \in gone
                 THEN [meta_tables.rows[t] EXCEPT !.project_id = 0]
                 ELSE meta_tables.rows[t]
          /\ UNCHANGED <<meta_fields, data, meta_views>>]_vars

\* a project was deleted together with a subproject, and a table they owned
\* was detached
C14_Witness ==
  /\ last.op = "delete_project"
  /\ last.n = <<2, 1>>

NamedCalls == {"create_project", "create_table", "rename_table", "create_view"}

\* the name given to the call of last' is empty after trimming, or is taken:
\* by a project, by a table (another one, for rename_table), or by a view of
\* the same table
NameRefused ==
  LET name == strip(last'.n.name)
      t == last'.rid
  IN \/ name = ""
     \/ last'.op = "create_project" /\ name \in NamesIn(meta_projects.rows)
     \/ last'.op = "create_table" /\ name \in NamesIn(meta_tables.rows)
     \/ /\ last'.op = "rename_table"
        /\ \E o \in DOMAIN meta_tables.rows \ {t} :
             t \in DOMAIN meta_tables.rows /\ meta_tables.rows[o].name = name
     \/ /\ last'.op = "create_view"
        /\ \E v \in ViewsOf(meta_views, t) : meta_views.rows[v].name = name

C17_RelationTargetMustExist ==
  [][\A f \in DOMAIN meta_fields' \ DOMAIN meta_fields :
       meta_fields'[f].ftype = "relation" =>
         /\ "target_table_id" \in DOMAIN meta_fields'[f].options
         /\ meta_fields'[f].options.target_table_id > 0
         /\ meta_fields'[f].options.target_table_id \in DOMAIN meta_tables.rows]_vars

\* a list with every string once, at the place of its first occurrence
RECURSIVE FirstOccurrences(_)
FirstOccurrences(l) ==
  IF l = <<>> THEN <<>>
  ELSE LET rest == FirstOccurrences(SubSeq(l, 1, Len(l) - 1))
           x == l[Len(l)]
       IN IF \E i \in DOMAIN rest : rest[i] = x THEN rest ELSE Append(rest, x)

\* C16: add_field with ftype = select, given a list of strings, stores the
\* list with every distinct string once, in the order of first occurrence
C16_SelectOptionsStoredDeduplicated ==
  [][(last'.op = "add_field" /\ meta_fields'[last'.rid].ftype = "select") =>
       meta_fields'[last'.rid].options.options = FirstOccurrences(last'.n.options)]_vars

Listed(rows) == {rows[i] : i \in DOMAIN rows}

\* C19: a filter that is one entry {min?, max?} on an active number field
\* returns exactly the records whose value v has (min absent or v >= min)
\* and (max absent or v <= max)
C19_NumberFilterInclusiveBounds ==
  (last.op = "list_records" /\ DOMAIN last.n.filters = {"1"}) =>
    LET fval == last.n.filters["1"]
    IN Listed(last.n.rows) =
         {r \in DOMAIN data[table_id].rows :
            LET v == data[table_id].rows[r].vals[1]
            IN /\ ("min" \notin DOMAIN fval \/ v >= fval["min"])
               /\ ("max" \notin DOMAIN fval \/ v <= fval["max"])}

\* the values 5, 10, 15, 20, 25 filtered with {min: 10, max: 20} gave the
\* records with 10, 15 and 20
C19_Witness ==
  /\ last.op = "list_records"
  /\ last.n.filters = ("1" :> [min |-> 10, max |-> 20])
  /\ Cardinality(DOMAIN data[table_id].rows) = 5
  /\ Listed(last.n.rows) = {2, 3, 4}

\* the entries of a filter map that name an active field of the table
LiveKeys(filters) ==
  {k \in DOMAIN filters :
     k \in DOMAIN IntOf /\ IntOf[k] \in FieldsOf(meta_fields, table_id, TRUE)}

\* what a filter entry asks of a value: a number within the inclusive
\* bounds given, a text equal to `equals` or else containing `contains`
Satisfies(ftype, fval, v) ==
  IF ftype = "number"
  THEN /\ ("min" \notin DOMAIN fval \/ v >= fval["min"])
       /\ ("max" \notin DOMAIN fval \/ v <= fval["max"])
  ELSE IF "equals" \in DOMAIN fval THEN v = fval["equals"]
  ELSE IF "contains" \in DOMAIN fval THEN fval["contains"] \in Substrings(v)
  ELSE TRUE

\* C20: list_records returns exactly the records that satisfy the entry of
\* every active field of the table named in filters; entries under any
\* other key (deactivated field, field of another table, unknown id, key
\* that is no number) change nothing in the result
C20_FiltersConjoinedUnknownKeysIgnored ==
  last.op = "list_records" =>
    LET filters == last.n.filters
        rows == data[table_id].rows
    IN /\ Listed(last.n.rows) =
            {r \in DOMAIN rows :
               \A k \in LiveKeys(filters) :
                 Satisfies(meta_fields[IntOf[k]].ftype, filters[k], rows[r].vals[IntOf[k]])}
       /\ last.n.rows =
            list_records(meta_fields, data, table_id, "", limit_default,
                         [k \in LiveKeys(filters) |-> filters[k]], 0, "DESC")

\* filters on the number field and on the text field together kept the
\* records that pass both, of the five with 5, 10, 15, 20, 25
C20_Witness ==
  /\ last.op = "list_records"
  /\ last.n.filters = ("1" :> [max |-> 20]) @@ ("2" :> [equals |-> "a"])
  /\ Cardinality(DOMAIN data[table_id].rows) = 5
  /\ Listed(last.n.rows) = {2, 4}

\* C27: in a table session 0 <= _undo_idx <= len(_undo), act_undo is enabled
\* exactly when _undo_idx > 0 and act_redo exactly when _undo_idx < len(_undo)
C27_CursorInRangeAndActionsAgree ==
  /\ 0 <= undo_idx
  /\ undo_idx <= Len(undo_stack)
  /\ act_undo <=> undo_idx > 0
  /\ act_redo <=> undo_idx < Len(undo_stack)

\* after an undo the cursor is inside the stack: both actions are enabled
C27_Witness ==
  /\ last.op = "undo"
  /\ Len(undo_stack) = 2
  /\ undo_idx = 1
  /\ act_undo /\ act_redo

\* the record ids of the table with the value of every active field
Content ==
  [r \in DOMAIN data[table_id].rows |->
     [f \in FieldsOf(meta_fields, table_id, TRUE) |-> data[table_id].rows[r].vals[f]]]

\* what the handler that recorded cmd did to the content: the row it
\* created, the values it wrote, the row it removed
AfterOperation(cmd, content) ==
  LET live == FieldsOf(meta_fields, table_id, TRUE)
  IN CASE cmd.label = "add" ->
            (cmd.rid :> [f \in live |-> cmd.was.vals[f]]) @@ content
       [] cmd.label = "edit" ->
            [content EXCEPT ![cmd.rid] =
               [f \in live |-> IF f \in DOMAIN cmd.data THEN cmd.data[f] ELSE @[f]]]
       [] cmd.label = "del" ->
            [r \in DOMAIN content \ {cmd.rid} |-> content[r]]

RECURSIVE AfterOperations(_, _)
AfterOperations(cmds, content) ==
  IF cmds = <<>> THEN content
  ELSE AfterOperations(Tail(cmds), AfterOperation(Head(cmds), content))

\* C28: with k of the n recorded operations not undone, the table holds the
\* record ids and active-field values it had after the first k operations:
\* n undos give the initial table back, n redos the table after all n
C28_UndoAllRedoAllRoundTrip ==
  Content = AfterOperations(SubSeq(undo_stack, 1, undo_idx), EmptyMap)

\* two operations were recorded, both undone, and one redone
C28_Witness ==
  /\ last.op = "redo"
  /\ Len(undo_stack) = 2
  /\ undo_idx = 1
  /\ steps = 5
  /\ undo_stack[1].label = "add"
  /\ undo_stack[2].label = "edit"
  /\ DOMAIN data[table_id].rows = {1}

\* C26: the row add_record creates has created_at = updated_at
C26_InsertStampsOneInstant ==
  [][(last'.op = "add_record" /\ last'.rid \in DOMAIN data'[table_id].rows) =>
       data'[table_id].rows[last'.rid].created_at =
         data'[table_id].rows[last'.rid].updated_at]_vars

\* C25: add_record returns an id greater than every id assigned before in
\* the table, by add_record or by add_record_with_id, deleted since or not
C25_InsertIdsIncrease ==
  [][last'.op = "add_record" => \A i \in Assigned : last'.rid > i]_vars

\* add_record returned 3 while the table held no row with id 2: 2 had been
\* assigned and deleted
C25_Witness ==
  /\ last.op = "add_record"
  /\ last.rid = 3
  /\ 2 \in last.n
  /\ 2 \notin DOMAIN data[table_id].rows

\* the project n steps up from q along parent_id, 0 above a top-level one
RECURSIVE Climb(_, _, _)
Climb(mp, q, n) ==
  IF n = 0 \/ q \notin DOMAIN mp.rows THEN (IF q \in DOMAIN mp.rows THEN q ELSE 0)
  ELSE Climb(mp, mp.rows[q].parent_id, n - 1)

\* C29: the parent relation of the projects is acyclic in every state
\* create_project, update_project and delete_project lead to: from every
\* project the chain of parents ends above a top-level project
C29_ProjectTreeAcyclic ==
  \A p \in DOMAIN meta_projects.rows :
    Climb(meta_projects, p, Cardinality(DOMAIN meta_projects.rows)) = 0

\* C30: a data table data_<id> exists only for the ids of meta_tables: once
\* delete_table(t) has run, no call of get_record_by_id, list_records,
\* list_relation_options, add_record, update_record or delete_record on t
\* brings data_<t> back
C30_StorageOnlyForCatalogTables ==
  DOMAIN data \subseteq DOMAIN meta_tables.rows

\* C23: for the relation field of the table, whose options name a target
\* table with display_field_id 0, _relation_label gives "#<id>" for a
\* positive id and "" for 0
C23_RelationLabelIsHashId ==
  (/\ last.op = "_relation_label"
   /\ "options_json" \in DOMAIN last.n.field
   /\ last.n.field.options_json.display_field_id = 0)
  => last.n.label = IF last.rid = 0 THEN "" ELSE HashLabel(last.rid)

\* C24: within a table session the list kept for a target table never
\* changes, whatever is written to the table, and get_relation_options on
\* a table that has a list returns that list
C24_RelationOptionsCachedForSession ==
  [][/\ \A t \in DOMAIN relation_cache :
          t \in DOMAIN relation_cache' /\ relation_cache'[t] = relation_cache[t]
     /\ (last'.op = "get_relation_options" /\ last'.rid \in DOMAIN relation_cache)
          => last'.n = relation_cache[last'.rid]]_vars

\* the list returned for a table was loaded before the table's records
\* changed: it is no longer what the table holds
C24_Witness ==
  /\ last.op = "get_relation_options"
  /\ steps >= 3
  /\ last.n # get_relation_options(meta_fields, data, EmptyMap, last.rid).options

\* the value the order of a result is judged on: the column of
\* sort_field_id when it is an active field of the table, else the id
SortColumn(sort_field_id, r) ==
  LET v == data[table_id].rows[r].vals
  IN IF sort_field_id \notin FieldsOf(meta_fields, table_id, TRUE) THEN r
     ELSE IF meta_fields[sort_field_id].ftype = "number" THEN v[sort_field_id]
     ELSE Rank[v[sort_field_id]]

\* C22: the rows of a result are strictly ordered: by the column of
\* sort_field_id when it is an active field of the table and by id
\* otherwise (a deactivated field, a field of another table, none),
\* ascending for ASC in either case of letters and descending for DESC and
\* any other sort_dir, rows with equal values by id descending
C22_ResultsTotallyOrdered ==
  last.op = "list_records_sorted" =>
    LET rows == last.n.rows
        asc == last.n.sort_dir \in {"ASC", "asc"}
        col(i) == SortColumn(last.n.sort_field_id, rows[i])
    IN \A i, j \in DOMAIN rows :
         i < j => \/ asc /\ col(i) < col(j)
                  \/ ~asc /\ col(i) > col(j)
                  \/ col(i) = col(j) /\ rows[i] > rows[j]

\* five records sorted by the text field, ascending: the two with "a" come
\* with the larger id first
C22_Witness ==
  /\ last.op = "list_records_sorted"
  /\ last.n.sort_field_id = 2
  /\ last.n.sort_dir = "asc"
  /\ last.n.rows = <<1, 4, 2, 3, 5>>

\* x occurs in v
Contains(v, x) == x \in Substrings(v)

\* what C21 says of record r and the query q
SearchMatches(q, r) ==
  LET v == data[table_id].rows[r].vals
      live == FieldsOf(meta_fields, table_id, TRUE)
      OfType(types) == {f \in live : meta_fields[f].ftype \in types}
  IN \/ Contains(ToString(r), q)
     \/ \E f \in OfType({"text", "date", "file", "select", "path"}) : Contains(v[f], q)
     \/ q \in DOMAIN FloatOf /\ \E f \in OfType({"number"}) : v[f] = FloatOf[q]
     \/ Lower(q) \in {"si", "sí", "true", "1", "yes"} /\ \E f \in OfType({"bool"}) : v[f] = 1
     \/ Lower(q) \in {"no", "false", "0"} /\ \E f \in OfType({"bool"}) : v[f] = 0
     \/ q \in DOMAIN IntOf /\ \E f \in OfType({"relation"}) : v[f] = IntOf[q]

\* C21: list_records with a non-empty query returns exactly the records of
\* which the id as text contains the query, or an active text, date, file,
\* select or path field contains it, or an active number field equals the
\* number it reads as, or an active bool field has the value of the keyword
\* it is, or an active relation field equals the integer it reads as
C21_SearchMatchesIff ==
  last.op = "search" =>
    Listed(last.n.rows) =
      {r \in DOMAIN data[table_id].rows : SearchMatches(last.n.query, r)}

====
